---- MODULE Spec2Model ----
(***************************************************************************)
(* Model of the envelope codec, the signature generators and their        *)
(* callers (app/service/crypto_helper.py, app/client/encrypt.py,          *)
(* app/client/engsel.py, app/client/purchase/*.py, app/client/ciam.py).   *)
(*                                                                         *)
(* Python str values are sequences of code points, bytes values are       *)
(* sequences of 0..255.  A Python call that may raise is modelled by a    *)
(* record with an ok field; None is the record NONE.                      *)
(***************************************************************************)
EXTENDS Integers, Sequences, FiniteSets, TLC

\* ------------------------------------------------------------------------
\* Records.  A value read from JSON is [t, v]: its type tag and its content.
\* A finished call is [op, raised, v, args].  Records are compared field by
\* field in the order in which their field names first appear, so the tag
\* and the operation are named first: records of different kinds differ in
\* their first field, and their contents are never compared.
\* ------------------------------------------------------------------------

Tagged(t, v) == [t |-> t, v |-> v]

Outcome(op, raised, v, args) == [op |-> op, raised |-> raised, v |-> v, args |-> args]

\* ------------------------------------------------------------------------
\* Generic sequence helpers
\* ------------------------------------------------------------------------

Tail_n(s, n) == SubSeq(s, n + 1, Len(s))

Last_n(s, n) == SubSeq(s, Len(s) - n + 1, Len(s))

Repeat(x, n) == [i \in 1..n |-> x]

StartsWith(s, p) == Len(s) >= Len(p) /\ SubSeq(s, 1, Len(p)) = p

\* Let([x \in {e} |-> body]) is body with x standing for the value of e
Let(f) == f[CHOOSE d \in DOMAIN f : TRUE]

RECURSIVE Concat(_)
Concat(ss) == IF ss = <<>> THEN <<>> ELSE Head(ss) \o Concat(Tail(ss))

\* Python None
NONE == [none |-> TRUE]

\* ------------------------------------------------------------------------
\* Characters
\* ------------------------------------------------------------------------

\* str.split() / str.strip() whitespace that can occur in the modelled strings
WHITESPACE == {9, 10, 11, 12, 13, 28, 29, 30, 31, 32, 133, 160}

\* a lone surrogate code point: str.encode("utf-8") raises on it
SURROGATES == 55296..57343

DIGITS == 48..57

HEXDIGITS == (48..57) \cup (65..70) \cup (97..102)

HexVal(c) == IF c \in 48..57 THEN c - 48 ELSE IF c \in 65..70 THEN c - 55 ELSE c - 87

\* str.lower() on the ASCII range
lower(s) == [i \in 1..Len(s) |-> IF s[i] \in 65..90 THEN s[i] + 32 ELSE s[i]]

RECURSIVE lstrip(_)
lstrip(s) == IF s /= <<>> /\ Head(s) \in WHITESPACE THEN lstrip(Tail(s)) ELSE s

RECURSIVE rstrip(_)
rstrip(s) ==
    IF s /= <<>> /\ s[Len(s)] \in WHITESPACE THEN rstrip(SubSeq(s, 1, Len(s) - 1)) ELSE s

\* str.strip()
strip(s) == rstrip(lstrip(s))

\* decimal string of a non-negative int: str(n)
RECURSIVE str_int(_)
str_int(n) == IF n < 10 THEN <<48 + n>> ELSE str_int(n \div 10) \o <<48 + (n % 10)>>

\* ------------------------------------------------------------------------
\* Bytes: xor, UTF-8, base64, hex
\* ------------------------------------------------------------------------

BXor(a, b) ==
    LET bit(i) == IF ((a \div (2 ^ i)) % 2) /= ((b \div (2 ^ i)) % 2) THEN 2 ^ i ELSE 0
    IN  bit(0) + bit(1) + bit(2) + bit(3) + bit(4) + bit(5) + bit(6) + bit(7)

XorBytes(x, y) == [i \in 1..Len(x) |-> BXor(x[i], y[i])]

\* UTF-8 encoding of one code point
utf8_char(c) ==
    IF c < 128 THEN <<c>>
    ELSE IF c < 2048 THEN <<192 + (c \div 64), 128 + (c % 64)>>
    ELSE IF c < 65536 THEN <<224 + (c \div 4096), 128 + ((c \div 64) % 64), 128 + (c % 64)>>
    ELSE <<240 + (c \div 262144), 128 + ((c \div 4096) % 64),
           128 + ((c \div 64) % 64), 128 + (c % 64)>>

RECURSIVE utf8_bytes(_)
utf8_bytes(s) ==
    IF s = <<>> THEN <<>>
    ELSE IF Len(s) = 1 THEN utf8_char(s[1])
    ELSE Let([half \in {Len(s) \div 2} |->
             utf8_bytes(SubSeq(s, 1, half)) \o utf8_bytes(SubSeq(s, half + 1, Len(s)))])

\* str.encode("utf-8"): raises UnicodeEncodeError on a lone surrogate
encode_utf8(s) ==
    IF \E i \in 1..Len(s) : s[i] \in SURROGATES THEN [ok |-> FALSE, v |-> <<>>]
    ELSE [ok |-> TRUE, v |-> utf8_bytes(s)]

\* str.encode("ascii", errors="strict")
encode_ascii(s) ==
    IF \E i \in 1..Len(s) : s[i] >= 128 THEN [ok |-> FALSE, v |-> <<>>]
    ELSE [ok |-> TRUE, v |-> s]

IsCont(b) == b \in 128..191

\* the number of bytes of the character that a byte starts; 0 for a byte that
\* starts none (0xC0, 0xC1, 0xF5..0xFF)
utf8_width(b0) ==
    IF b0 < 128 THEN 1
    ELSE IF b0 \in 194..223 THEN 2
    ELSE IF b0 \in 224..239 THEN 3
    ELSE IF b0 \in 240..244 THEN 4
    ELSE 0

\* bytes.decode("utf-8", errors="strict"): every byte that is not a
\* continuation byte starts a character; the character must be complete, not
\* overlong, no surrogate, at most U+10FFFF, and followed by the start of the
\* next one
decode_utf8(b) ==
    Let([n \in {Len(b)} |->
        LET
        c(i, k) == b[i + k] % 64
        well_formed(i) ==
            /\ utf8_width(b[i]) > 0
            /\ i + utf8_width(b[i]) - 1 <= n
            /\ \A k \in 1..(utf8_width(b[i]) - 1) : IsCont(b[i + k])
            /\ (i + utf8_width(b[i]) <= n => ~IsCont(b[i + utf8_width(b[i])]))
            /\ (b[i] = 224 => b[i + 1] >= 160)
            /\ (b[i] = 237 => b[i + 1] <= 159)
            /\ (b[i] = 240 => b[i + 1] >= 144)
            /\ (b[i] = 244 => b[i + 1] <= 143)
        code_point(i) ==
            CASE utf8_width(b[i]) = 1 -> b[i]
              [] utf8_width(b[i]) = 2 -> (b[i] - 192) * 64 + c(i, 1)
              [] utf8_width(b[i]) = 3 -> (b[i] - 224) * 4096 + c(i, 1) * 64 + c(i, 2)
              [] utf8_width(b[i]) = 4 ->
                    (b[i] - 240) * 262144 + c(i, 1) * 4096 + c(i, 2) * 64 + c(i, 3)
        IN
        Let([starts \in {SelectSeq([i \in 1..n |-> i], LAMBDA i : ~IsCont(b[i]))} |->
        IF \/ n > 0 /\ IsCont(b[1])
           \/ \E k \in 1..Len(starts) : ~well_formed(starts[k])
        THEN [ok |-> FALSE, v |-> <<>>]
        ELSE [ok |-> TRUE, v |-> SubSeq([k \in 1..Len(starts) |-> code_point(starts[k])], 1, Len(starts))]])])

\* "ABC...Zabc...z0123456789"
B64_COMMON ==
    [i \in 1..62 |-> IF i <= 26 THEN 64 + i ELSE IF i <= 52 THEN 70 + i ELSE i - 5]

\* standard alphabet ends in "+/", URL-safe alphabet in "-_"
B64_STD == B64_COMMON \o <<43, 47>>

B64_URL == B64_COMMON \o <<45, 95>>

\* binascii.b2a_base64 with the given alphabet ("=" padding kept)
b64encode_with(b, alphabet) ==
    Let([n \in {Len(b)} |->
        Let([groups \in {(n + 2) \div 3} |->
        LET
        byte(k) == IF k <= n THEN b[k] ELSE 0
        sextet(g, j) ==
            Let([b1 \in {byte(3 * g + 1)} |->
                Let([b2 \in {byte(3 * g + 2)} |->
                Let([b3 \in {byte(3 * g + 3)} |->
                CASE j = 1 -> b1 \div 4
                  [] j = 2 -> (b1 % 4) * 16 + (b2 \div 16)
                  [] j = 3 -> (b2 % 16) * 4 + (b3 \div 64)
                  [] j = 4 -> b3 % 64])])])
        ch(i) ==
            Let([g \in {(i - 1) \div 4} |->
                Let([j \in {((i - 1) % 4) + 1} |->
                IF 3 * g + j - 1 > n THEN 61 ELSE alphabet[sextet(g, j) + 1]])])
    IN  [i \in 1..(4 * groups) |-> ch(i)]])])

b64encode(b) == b64encode_with(b, B64_STD)

urlsafe_b64encode(b) == b64encode_with(b, B64_URL)

\* value of a character of the standard alphabet, 64 when not in it
B64Val(c) ==
    IF c \in 65..90 THEN c - 65
    ELSE IF c \in 97..122 THEN c - 71
    ELSE IF c \in 48..57 THEN c + 4
    ELSE IF c = 43 THEN 62
    ELSE IF c = 47 THEN 63
    ELSE 64

\* binascii.a2b_base64 in non-strict mode: characters outside the alphabet are
\* skipped, a complete pad sequence ends the input, a dangling quad raises
a2b_base64(s) ==
    Let([n \in {Len(s)} |->
        LET
        is_data(i) == B64Val(s[i]) < 64
        data_before(i) == Cardinality({j \in 1..(i - 1) : is_data(j)})
        \* "=" seen since the last alphabet character, the one at i included
        pads_at(i) ==
            Cardinality({j \in 1..i : s[j] = 61 /\ \A k \in (j + 1)..i : ~is_data(k)})
        ends_at(i) ==
            /\ s[i] = 61
            /\ data_before(i) % 4 >= 2
            /\ (data_before(i) % 4) + pads_at(i) >= 4
        IN
        Let([ends \in {{i \in 1..n : ends_at(i)}} |->
        Let([stop \in {IF ends = {} THEN n + 1 ELSE CHOOSE i \in ends : \A j \in ends : i <= j} |->
        Let([at \in {SelectSeq([i \in 1..n |-> i], LAMBDA i : i < stop /\ is_data(i))} |->
        LET
        val(k) == B64Val(s[at[k]])
        IN
        Let([quad_pos \in {Len(at) % 4} |->
        Let([size \in {3 * (Len(at) \div 4) + (IF quad_pos >= 2 THEN quad_pos - 1 ELSE 0)} |->
        LET
        byte(k) ==
            Let([g \in {4 * ((k - 1) \div 3)} |->
                CASE (k - 1) % 3 = 0 -> val(g + 1) * 4 + (val(g + 2) \div 16)
                  [] (k - 1) % 3 = 1 -> (val(g + 2) % 16) * 16 + (val(g + 3) \div 4)
                  [] (k - 1) % 3 = 2 -> (val(g + 3) % 4) * 64 + val(g + 4)])
    IN  IF ends = {} /\ quad_pos /= 0 THEN [ok |-> FALSE, v |-> <<>>]
        ELSE [ok |-> TRUE, v |-> [k \in 1..size |-> byte(k)]]])])])])])])

\* base64.b64decode(s, validate=False) of a str
b64decode(s) ==
    IF ~encode_ascii(s).ok THEN [ok |-> FALSE, v |-> <<>>]
    ELSE a2b_base64(s)

\* base64.urlsafe_b64decode: "-" and "_" are translated to "+" and "/" first
urlsafe_b64decode(s) ==
    b64decode([i \in 1..Len(s) |-> IF s[i] = 45 THEN 43 ELSE IF s[i] = 95 THEN 47 ELSE s[i]])

\* bytes.fromhex: pairs of hex digits, ASCII whitespace allowed between pairs
RECURSIVE fromhex_loop(_, _, _)
fromhex_loop(s, i, out) ==
    IF i > Len(s) THEN [ok |-> TRUE, v |-> out]
    ELSE IF s[i] \in {9, 10, 11, 12, 13, 32} THEN fromhex_loop(s, i + 1, out)
    ELSE IF i + 1 <= Len(s) /\ s[i] \in HEXDIGITS /\ s[i + 1] \in HEXDIGITS
         THEN fromhex_loop(s, i + 2, Append(out, HexVal(s[i]) * 16 + HexVal(s[i + 1])))
         ELSE [ok |-> FALSE, v |-> <<>>]

fromhex(s) == fromhex_loop(s, 1, <<>>)

\* ------------------------------------------------------------------------
\* json.dumps / json.loads
\*
\* A JSON value is a record [t, v]: t = "obj" with v a sequence of <<key, value>>
\* pairs (a dict in insertion order), "arr" with v a sequence of values, "str"
\* with v a sequence of code points, "int" with v an integer, "float" and
\* "bigint" with v the number's text, "lit" with v in {"true","false","null",
\* "NaN","Infinity","-Infinity"}.
\* ------------------------------------------------------------------------

JObj(pairs) == Tagged("obj", pairs)

JStr(s) == Tagged("str", s)

JInt(n) == Tagged("int", n)

JLit(name) == Tagged("lit", name)

EMPTY_DICT == JObj(<<>>)

Keys(pairs) == {pairs[i][1] : i \in 1..Len(pairs)}

\* dict lookup: the last pair stored under the key
DictGet(pairs, k) ==
    pairs[CHOOSE i \in 1..Len(pairs) :
            pairs[i][1] = k /\ \A j \in (i + 1)..Len(pairs) : pairs[j][1] /= k][2]

\* Python == on parsed JSON values
RECURSIVE JEq(_, _)
JEq(a, b) ==
    /\ a.t = b.t
    /\ CASE a.t = "obj" ->
              /\ Keys(a.v) = Keys(b.v)
              /\ \A k \in Keys(a.v) : JEq(DictGet(a.v, k), DictGet(b.v, k))
         [] a.t = "arr" ->
              /\ Len(a.v) = Len(b.v)
              /\ \A i \in 1..Len(a.v) : JEq(a.v[i], b.v[i])
         [] OTHER -> a.v = b.v

\* isinstance(x, dict)
IsDict(x) == x.t = "obj"

\* truthiness of a dict
NonEmptyDict(x) == x.t = "obj" /\ x.v /= <<>>

HexDigit(n) == IF n < 10 THEN 48 + n ELSE 87 + n

\* json.encoder.py_encode_basestring (ensure_ascii=False)
escape_char(c) ==
    CASE c = 34 -> <<92, 34>>
      [] c = 92 -> <<92, 92>>
      [] c = 10 -> <<92, 110>>
      [] c = 13 -> <<92, 114>>
      [] c = 9  -> <<92, 116>>
      [] c = 12 -> <<92, 102>>
      [] c = 8  -> <<92, 98>>
      [] c < 32 /\ c \notin {8, 9, 10, 12, 13} ->
            <<92, 117, 48, 48, HexDigit(c \div 16), HexDigit(c % 16)>>
      [] OTHER -> <<c>>

RECURSIVE escape_str(_)
escape_str(s) ==
    IF s = <<>> THEN <<>>
    ELSE IF Len(s) = 1 THEN escape_char(s[1])
    ELSE Let([half \in {Len(s) \div 2} |->
             escape_str(SubSeq(s, 1, half)) \o escape_str(SubSeq(s, half + 1, Len(s)))])

lit_text(name) ==
    CASE name = "true" -> <<116, 114, 117, 101>>
      [] name = "false" -> <<102, 97, 108, 115, 101>>
      [] name = "null" -> <<110, 117, 108, 108>>
      [] name = "NaN" -> <<78, 97, 78>>
      [] name = "Infinity" -> <<73, 110, 102, 105, 110, 105, 116, 121>>
      [] name = "-Infinity" -> <<45, 73, 110, 102, 105, 110, 105, 116, 121>>

\* json.dumps(payload, ensure_ascii=False, separators=(",", ":"))
RECURSIVE _safe_json_dumps(_)
RECURSIVE dumps_items(_, _)
dumps_items(items, isObj) ==
    IF items = <<>> THEN <<>>
    ELSE Let([one \in {IF isObj
                    THEN <<34>> \o escape_str(Head(items)[1]) \o <<34, 58>>
                         \o _safe_json_dumps(Head(items)[2])
                    ELSE _safe_json_dumps(Head(items))} |->
             one \o (IF Len(items) > 1 THEN <<44>> ELSE <<>>)
                 \o dumps_items(Tail(items), isObj)])

_safe_json_dumps(x) ==
    CASE x.t = "obj" -> <<123>> \o dumps_items(x.v, TRUE) \o <<125>>
      [] x.t = "arr" -> <<91>> \o dumps_items(x.v, FALSE) \o <<93>>
      [] x.t = "str" -> <<34>> \o escape_str(x.v) \o <<34>>
      [] x.t = "int" -> IF x.v < 0 THEN <<45>> \o str_int(0 - x.v) ELSE str_int(x.v)
      [] x.t = "lit" -> lit_text(x.v)
      [] OTHER -> x.v

JFAIL == [ok |-> FALSE, v |-> NONE, pos |-> 0]

JOk(val, pos) == [ok |-> TRUE, v |-> val, pos |-> pos]

\* json.decoder.WHITESPACE: " \t\n\r"
RECURSIVE skip_ws(_, _)
skip_ws(s, i) == IF i <= Len(s) /\ s[i] \in {32, 9, 10, 13} THEN skip_ws(s, i + 1) ELSE i

RECURSIVE scan_digits(_, _)
scan_digits(s, i) == IF i <= Len(s) /\ s[i] \in DIGITS THEN scan_digits(s, i + 1) ELSE i

RECURSIVE digits_value(_, _)
digits_value(d, acc) ==
    IF d = <<>> THEN acc ELSE digits_value(Tail(d), acc * 10 + (Head(d) - 48))

\* json.scanner NUMBER_RE: (-?(?:0|[1-9]\d*))(\.\d+)?([eE][-+]?\d+)?
scan_number(s, i) ==
    Let([n \in {Len(s)} |->
        Let([neg \in {i <= n /\ s[i] = 45} |->
        Let([i0 \in {IF neg THEN i + 1 ELSE i} |->
        Let([intEnd \in {IF i0 <= n /\ s[i0] = 48 THEN i0 + 1
                  ELSE IF i0 <= n /\ s[i0] \in 49..57 THEN scan_digits(s, i0)
                  ELSE i0} |->
        Let([fracEnd \in {IF intEnd + 1 <= n /\ s[intEnd] = 46 /\ s[intEnd + 1] \in DIGITS
                   THEN scan_digits(s, intEnd + 1) ELSE intEnd} |->
        Let([e1 \in {IF fracEnd + 1 <= n /\ s[fracEnd] \in {69, 101} /\ s[fracEnd + 1] \in {43, 45}
              THEN fracEnd + 2 ELSE fracEnd + 1} |->
        Let([expEnd \in {IF fracEnd <= n /\ s[fracEnd] \in {69, 101} /\ e1 <= n /\ s[e1] \in DIGITS
                  THEN scan_digits(s, e1) ELSE fracEnd} |->
        Let([digits \in {SubSeq(s, i0, intEnd - 1)} |->
        IF intEnd = i0 THEN JFAIL
        ELSE IF expEnd > intEnd THEN JOk([t |-> "float", v |-> SubSeq(s, i, expEnd - 1)], expEnd)
        ELSE IF Len(digits) > 9 THEN JOk([t |-> "bigint", v |-> SubSeq(s, i, intEnd - 1)], intEnd)
        ELSE JOk(JInt(IF neg THEN 0 - digits_value(digits, 0) ELSE digits_value(digits, 0)),
                 intEnd)])])])])])])])])

\* json.decoder.py_scanstring (strict): i is the index after the opening quote
RECURSIVE scan_string(_, _, _)
scan_string(s, i, acc) ==
    IF i > Len(s) THEN JFAIL
    ELSE Let([c \in {s[i]} |->
             IF c = 34 THEN JOk(JStr(acc), i + 1)
             ELSE IF c < 32 THEN JFAIL
             ELSE IF c /= 92 THEN scan_string(s, i + 1, Append(acc, c))
             ELSE IF i + 1 > Len(s) THEN JFAIL
             ELSE Let([e \in {s[i + 1]} |->
                      CASE e = 34  -> scan_string(s, i + 2, Append(acc, 34))
                        [] e = 92  -> scan_string(s, i + 2, Append(acc, 92))
                        [] e = 47  -> scan_string(s, i + 2, Append(acc, 47))
                        [] e = 98  -> scan_string(s, i + 2, Append(acc, 8))
                        [] e = 102 -> scan_string(s, i + 2, Append(acc, 12))
                        [] e = 110 -> scan_string(s, i + 2, Append(acc, 10))
                        [] e = 114 -> scan_string(s, i + 2, Append(acc, 13))
                        [] e = 116 -> scan_string(s, i + 2, Append(acc, 9))
                        [] e = 117 ->
                             IF /\ i + 5 <= Len(s)
                                /\ \A k \in 2..5 : s[i + k] \in HEXDIGITS
                             THEN scan_string(s, i + 6,
                                      Append(acc, HexVal(s[i + 2]) * 4096 + HexVal(s[i + 3]) * 256
                                                  + HexVal(s[i + 4]) * 16 + HexVal(s[i + 5])))
                             ELSE JFAIL
                        [] OTHER -> JFAIL])])

HasAt(s, i, word) == i + Len(word) - 1 <= Len(s) /\ SubSeq(s, i, i + Len(word) - 1) = word

\* json.scanner.py_make_scanner._scan_once with JSONObject and JSONArray
RECURSIVE scan_once(_, _)
RECURSIVE scan_members(_, _, _)
RECURSIVE scan_elements(_, _, _)
scan_once(s, i) ==
    IF i > Len(s) THEN JFAIL
    ELSE Let([c \in {s[i]} |->
             CASE c = 34 -> scan_string(s, i + 1, <<>>)
               [] c = 123 ->
                    Let([j \in {skip_ws(s, i + 1)} |->
                        IF j <= Len(s) /\ s[j] = 125 THEN JOk(JObj(<<>>), j + 1)
                        ELSE scan_members(s, j, <<>>)])
               [] c = 91 ->
                    Let([j \in {skip_ws(s, i + 1)} |->
                        IF j <= Len(s) /\ s[j] = 93 THEN JOk([t |-> "arr", v |-> <<>>], j + 1)
                        ELSE scan_elements(s, j, <<>>)])
               [] c = 110 /\ HasAt(s, i, lit_text("null")) -> JOk(JLit("null"), i + 4)
               [] c = 116 /\ HasAt(s, i, lit_text("true")) -> JOk(JLit("true"), i + 4)
               [] c = 102 /\ HasAt(s, i, lit_text("false")) -> JOk(JLit("false"), i + 5)
               [] c = 78 /\ HasAt(s, i, lit_text("NaN")) -> JOk(JLit("NaN"), i + 3)
               [] c = 73 /\ HasAt(s, i, lit_text("Infinity")) -> JOk(JLit("Infinity"), i + 8)
               [] c = 45 /\ HasAt(s, i, lit_text("-Infinity")) ->
                    JOk(JLit("-Infinity"), i + 9)
               [] OTHER -> scan_number(s, i)])

\* i is at the opening quote of the next key
scan_members(s, i, acc) ==
    IF i > Len(s) \/ s[i] /= 34 THEN JFAIL
    ELSE Let([k \in {scan_string(s, i + 1, <<>>)} |->
             IF ~k.ok THEN JFAIL
             ELSE Let([c \in {skip_ws(s, k.pos)} |->
                      IF c > Len(s) \/ s[c] /= 58 THEN JFAIL
                      ELSE Let([val \in {scan_once(s, skip_ws(s, c + 1))} |->
                               IF ~val.ok THEN JFAIL
                               ELSE Let([e \in {skip_ws(s, val.pos)} |->
                                        Let([acc2 \in {Append(acc, <<k.v.v, val.v>>)} |->
                                        IF e > Len(s) THEN JFAIL
                                        ELSE IF s[e] = 125 THEN JOk(JObj(acc2), e + 1)
                                        ELSE IF s[e] = 44
                                             THEN scan_members(s, skip_ws(s, e + 1), acc2)
                                        ELSE JFAIL])])])])])

scan_elements(s, i, acc) ==
    Let([val \in {scan_once(s, i)} |->
        IF ~val.ok THEN JFAIL
        ELSE Let([e \in {skip_ws(s, val.pos)} |->
                 Let([acc2 \in {Append(acc, val.v)} |->
                 IF e > Len(s) THEN JFAIL
                 ELSE IF s[e] = 93 THEN JOk([t |-> "arr", v |-> acc2], e + 1)
                 ELSE IF s[e] = 44 THEN scan_elements(s, skip_ws(s, e + 1), acc2)
                 ELSE JFAIL])])])

\* json.loads(s): raises on a BOM, on a syntax error and on trailing data
json_loads(s) ==
    IF s /= <<>> /\ s[1] = 65279 THEN JFAIL
    ELSE Let([r \in {scan_once(s, skip_ws(s, 1))} |->
             IF r.ok /\ skip_ws(s, r.pos) = Len(s) + 1 THEN r ELSE JFAIL])

\* ------------------------------------------------------------------------
\* State
\* ------------------------------------------------------------------------

VARIABLES
    XDATA_KEY,          \* crypto_helper.XDATA_KEY, read from the environment at import
    X_API_BASE_SECRET,  \* crypto_helper.X_API_BASE_SECRET
    AX_API_SIG_KEY,     \* crypto_helper.AX_API_SIG_KEY
    ENCRYPTED_FIELD_KEY, \* crypto_helper.ENCRYPTED_FIELD_KEY and encrypt.ENCRYPTED_FIELD_KEY
    env_XDATA_KEYS,     \* os.getenv("XDATA_KEYS", ""), read at every decrypt
    file_xdata_keys,    \* lines of the file xdata.keys, NONE when it does not exist
    api_key,            \* engsel._client.config.api_key
    wire,               \* the envelope in flight, with a record of how it was made
    pc,                 \* "idle", or "done" once a call has returned or raised
    ret,                \* the last call: its operation, arguments and outcome
    http,               \* the HTTP requests sent by the last call, in order
    earlier,            \* an earlier call of the run, kept to compare a later one with
    AX_FP_KEY,          \* encrypt.AX_FP_KEY, read from the environment at import
    env_MYXL_AX_FP_KEY_STRICT, \* os.getenv("MYXL_AX_FP_KEY_STRICT", "1")
    files,              \* the working directory: path -> inode, inode -> content
    callers,            \* the threads inside load_or_create_fingerprint
    refresh_tokens,     \* Auth.refresh_tokens
    active_user,        \* Auth.active_user, NO_USER for None
    last_refresh_time,  \* Auth.last_refresh_time
    _pending_active_number, \* Auth._pending_active_number
    token_file,         \* the items of the file refresh-tokens.json
    active_file,        \* the number in the file active.number, 0 when there is no file
    monotonic,          \* time.monotonic(), in seconds
    runner,             \* the run of show_custom_loop_menu: its limits, counters and position
    current_sub_id,     \* DecoyPackage.current_sub_id, <<>> for None
    file_prefix,        \* DecoyPackage.file_prefix
    cache,              \* DecoyPackage.cache, as the set of its entries
    decoy_callers       \* the threads inside DecoyPackage.get_decoy

\* the state of the services around the codec
fingerprint_vars == <<AX_FP_KEY, env_MYXL_AX_FP_KEY_STRICT, files, callers>>

auth_vars == <<refresh_tokens, active_user, last_refresh_time, _pending_active_number,
               token_file, active_file, monotonic>>

decoy_vars == <<current_sub_id, file_prefix, cache, decoy_callers>>

service_vars == <<fingerprint_vars, auth_vars, runner, decoy_vars>>

\* the keys and secrets of the codec and the envelope in flight
codec_vars == <<XDATA_KEY, X_API_BASE_SECRET, AX_API_SIG_KEY, ENCRYPTED_FIELD_KEY, env_XDATA_KEYS,
                file_xdata_keys, api_key, wire>>

vars == <<XDATA_KEY, X_API_BASE_SECRET, AX_API_SIG_KEY, ENCRYPTED_FIELD_KEY, env_XDATA_KEYS,
          file_xdata_keys, api_key, wire, pc, ret, http, earlier, service_vars>>

\* ------------------------------------------------------------------------
\* Timestamps.  TLC integers are 32 bits wide, so a millisecond timestamp
\* 1700000000000 + t is represented by its offset t.
\* ------------------------------------------------------------------------

EPOCH_SEC == 1700000000

\* round(xtime / 1000): the nearest second instead of the whole seconds
sig_time_rounded(t) == EPOCH_SEC + ((t + 500) \div 1000)

\* xtime // 1000
sig_time_of(t) == EPOCH_SEC + (t \div 1000)

\* str(int(xtime_ms))
xtime_str(t) ==
    str_int(sig_time_of(t))
        \o <<48 + ((t % 1000) \div 100), 48 + ((t \div 10) % 10), 48 + (t % 10)>>

\* int(s) for the decimal text of a timestamp xtime_str can produce
int_of_str(s) ==
    IF Len(s) = 13 /\ (\A i \in 1..13 : s[i] \in DIGITS)
       /\ digits_value(SubSeq(s, 1, 4), 0) = 1700
    THEN [ok |-> TRUE,
          v |-> (digits_value(SubSeq(s, 1, 10), 0) - EPOCH_SEC) * 1000
                + digits_value(SubSeq(s, 11, 13), 0)]
    ELSE [ok |-> FALSE, v |-> 0]

\* hashlib.sha256(text).hexdigest()[:16] for the timestamps of the model
SHA256_HEX16(text) ==
    CASE text = xtime_str(0) ->         \* 1700000000000 -> bc99b4bf100ad96c
            <<98, 99, 57, 57, 98, 52, 98, 102, 49, 48, 48, 97, 100, 57, 54, 99>>
      [] text = xtime_str(1) ->         \* 1700000000001 -> 2e79107c9794a8d9
            <<50, 101, 55, 57, 49, 48, 55, 99, 57, 55, 57, 52, 97, 56, 100, 57>>
      [] text = xtime_str(2500) ->      \* 1700000002500 -> 45a211c88d0154ab
            <<52, 53, 97, 50, 49, 49, 99, 56, 56, 100, 48, 49, 53, 52, 97, 98>>
      [] text = xtime_str(34348245) ->  \* 1700034348245 -> bcd177c3100cb05a
            <<98, 99, 100, 49, 55, 55, 99, 51, 49, 48, 48, 99, 98, 48, 53, 97>>

\* ------------------------------------------------------------------------
\* AES-CBC and PKCS7 (pycryptodome)
\* ------------------------------------------------------------------------

_BLOCK_SIZE == 16

\* The AES block permutation is represented by a keyed permutation of 16-byte
\* blocks: byte i is shifted by the sum of the key bytes at positions i, i+16.
RoundKey(key) ==
    [i \in 1..16 |-> (key[i] + (IF i + 16 <= Len(key) THEN key[i + 16] ELSE 0)) % 256]

AES_encrypt_block(key, b) == [i \in 1..16 |-> (b[i] + RoundKey(key)[i]) % 256]

AES_decrypt_block(key, b) == [i \in 1..16 |-> (b[i] + 256 - RoundKey(key)[i]) % 256]

RECURSIVE cbc_encrypt_blocks(_, _, _)
cbc_encrypt_blocks(key, prev, data) ==
    IF data = <<>> THEN <<>>
    ELSE Let([c \in {AES_encrypt_block(key, XorBytes(SubSeq(data, 1, 16), prev))} |->
             c \o cbc_encrypt_blocks(key, c, Tail_n(data, 16))])

RECURSIVE cbc_decrypt_blocks(_, _, _)
cbc_decrypt_blocks(key, prev, ct) ==
    IF ct = <<>> THEN <<>>
    ELSE Let([c \in {SubSeq(ct, 1, 16)} |->
             XorBytes(AES_decrypt_block(key, c), prev) \o cbc_decrypt_blocks(key, c, Tail_n(ct, 16))])

\* AES.new(key, AES.MODE_CBC, iv).encrypt(data): ValueError on a bad key or IV
\* length and on data that is not a multiple of the block size
AES_CBC_encrypt(key, iv, data) ==
    IF Len(key) \notin {16, 24, 32} \/ Len(iv) /= 16 \/ Len(data) % 16 /= 0
    THEN [ok |-> FALSE, v |-> <<>>]
    ELSE [ok |-> TRUE, v |-> cbc_encrypt_blocks(key, iv, data)]

AES_CBC_decrypt(key, iv, ct) ==
    IF Len(key) \notin {16, 24, 32} \/ Len(iv) /= 16 \/ Len(ct) % 16 /= 0
    THEN [ok |-> FALSE, v |-> <<>>]
    ELSE [ok |-> TRUE, v |-> cbc_decrypt_blocks(key, iv, ct)]

\* Crypto.Util.Padding.pad(data, 16, style="pkcs7")
pad(data) ==
    Let([padding_len \in {_BLOCK_SIZE - (Len(data) % _BLOCK_SIZE)} |->
        data \o Repeat(padding_len, padding_len)])

\* Crypto.Util.Padding.unpad(data, 16, style="pkcs7"), ValueError as ok = FALSE
unpad(data) ==
    Let([n \in {Len(data)} |->
        IF n = 0 \/ n % _BLOCK_SIZE /= 0 THEN [ok |-> FALSE, v |-> <<>>]
        ELSE Let([padding_len \in {data[n]} |->
                 IF padding_len < 1 \/ padding_len > _BLOCK_SIZE
                 THEN [ok |-> FALSE, v |-> <<>>]
                 ELSE IF Last_n(data, padding_len) /= Repeat(padding_len, padding_len)
                 THEN [ok |-> FALSE, v |-> <<>>]
                 ELSE [ok |-> TRUE, v |-> SubSeq(data, 1, n - padding_len)]])])

\* ------------------------------------------------------------------------
\* app/service/crypto_helper.py
\* ------------------------------------------------------------------------

HEX_PREFIX == <<104, 101, 120, 58>>

B64_PREFIX == <<98, 54, 52, 58>>

\* _key_bytes: ok = FALSE is None
_key_bytes(key_str) ==
    IF key_str = <<>> THEN [ok |-> FALSE, v |-> <<>>]
    ELSE Let([s \in {strip(key_str)} |->
             Let([kb \in {IF StartsWith(lower(s), HEX_PREFIX) THEN fromhex(strip(Tail_n(s, 4)))
                   ELSE IF StartsWith(lower(s), B64_PREFIX) THEN b64decode(strip(Tail_n(s, 4)))
                   ELSE encode_utf8(s)} |->
             IF kb.ok /\ Len(kb.v) \in {16, 24, 32} THEN kb ELSE [ok |-> FALSE, v |-> <<>>]])])

\* _fix_b64
_fix_b64(s) ==
    IF s = <<>> THEN <<>>
    ELSE Let([s2 \in {SelectSeq(s, LAMBDA c : c \notin WHITESPACE)} |->
             Let([pad_len \in {(4 - (Len(s2) % 4)) % 4} |->
             s2 \o Repeat(61, pad_len)])])

\* int(x) of an integer, of a text or of None; ok = FALSE when it raises
py_int(x) ==
    CASE x.t = "int" -> [ok |-> TRUE, v |-> x.v]
      [] x.t = "str" -> int_of_str(strip(x.v))
      [] x.t = "lit" -> [ok |-> FALSE, v |-> 0]

\* derive_iv: b"0" * 16 when the timestamp cannot be turned into an integer
derive_iv(xtime_ms) ==
    Let([n \in {py_int(xtime_ms)} |->
        IF ~n.ok THEN Repeat(48, _BLOCK_SIZE)
        ELSE Let([iv \in {SHA256_HEX16(xtime_str(n.v))} |->
                 IF Len(iv) = _BLOCK_SIZE THEN iv ELSE Repeat(48, _BLOCK_SIZE)])])

\* a _safe_unpad that checks the padding but leaves it in place
_safe_unpad_keeps_padding(data) == IF unpad(data).ok THEN [ok |-> TRUE, v |-> data] ELSE unpad(data)

\* _safe_unpad: ok = FALSE is None
_safe_unpad(data) == unpad(data)

\* str.split(sep)
RECURSIVE split(_, _)
split(s, sep) ==
    IF \A i \in 1..Len(s) : s[i] /= sep THEN <<s>>
    ELSE Let([k \in {CHOOSE i \in 1..Len(s) : s[i] = sep /\ \A j \in 1..(i - 1) : s[j] /= sep} |->
             <<SubSeq(s, 1, k - 1)>> \o split(Tail_n(s, k), sep)])

\* the raw key strings _iter_candidate_keys pushes, in order
candidate_strings ==
    Let([primary \in {IF XDATA_KEY /= <<>> THEN <<XDATA_KEY>> ELSE <<>>} |->
        Let([items \in {IF env_XDATA_KEYS /= <<>> THEN split(env_XDATA_KEYS, 44) ELSE <<>>} |->
        Let([envs \in {SelectSeq([i \in 1..Len(items) |-> strip(items[i])], LAMBDA x : x /= <<>>)} |->
        Let([lines \in {IF file_xdata_keys = NONE THEN <<>>
                 ELSE SelectSeq([i \in 1..Len(file_xdata_keys) |-> strip(file_xdata_keys[i])],
                                LAMBDA x : x /= <<>> /\ x[1] /= 35)} |->
        primary \o envs \o lines])])])])

\* _push_one over a list of raw strings: invalid keys and duplicates are skipped
RECURSIVE push_all(_, _)
push_all(raws, seen) ==
    IF raws = <<>> THEN <<>>
    ELSE Let([kb \in {_key_bytes(Head(raws))} |->
             IF kb.ok /\ kb.v \notin seen
             THEN <<kb.v>> \o push_all(Tail(raws), seen \cup {kb.v})
             ELSE push_all(Tail(raws), seen)])

\* _iter_candidate_keys
_iter_candidate_keys == push_all(candidate_strings, {})

\* an encrypt_xdata that takes the first candidate key of the moment
encrypt_xdata_first_candidate(plaintext, xtime_ms) ==
    IF plaintext = <<>> THEN <<>>
    ELSE Let([keys \in {_iter_candidate_keys} |->
             Let([pt \in {encode_utf8(plaintext)} |->
             IF keys = <<>> THEN <<>>
             ELSE IF ~pt.ok THEN <<>>
             ELSE Let([ct \in {AES_CBC_encrypt(Head(keys), derive_iv(xtime_ms), pad(pt.v))} |->
                      IF ct.ok THEN urlsafe_b64encode(ct.v) ELSE <<>>])])])

\* encrypt_xdata: returns "" on failure
encrypt_xdata(plaintext, xtime_ms) ==
    IF plaintext = <<>> THEN <<>>
    ELSE Let([key \in {_key_bytes(XDATA_KEY)} |->
             Let([pt \in {encode_utf8(plaintext)} |->
             IF ~key.ok THEN <<>>
             ELSE IF ~pt.ok THEN <<>>
             ELSE Let([ct \in {AES_CBC_encrypt(key.v, derive_iv(xtime_ms), pad(pt.v))} |->
                      IF ct.ok THEN urlsafe_b64encode(ct.v) ELSE <<>>])])])

\* _try_decrypt_with_key: ok = FALSE is None
_try_decrypt_with_key(ct_b64, xtime_ms, key) ==
    Let([ct \in {urlsafe_b64decode(_fix_b64(ct_b64))} |->
        IF ~ct.ok THEN [ok |-> FALSE, v |-> <<>>]
        ELSE Let([pt_padded \in {AES_CBC_decrypt(key, derive_iv(xtime_ms), ct.v)} |->
                 IF ~pt_padded.ok THEN [ok |-> FALSE, v |-> <<>>]
                 ELSE Let([pt \in {_safe_unpad(pt_padded.v)} |->
                          IF ~pt.ok THEN [ok |-> FALSE, v |-> <<>>]
                          ELSE decode_utf8(pt.v)])])])

EMPTY_JSON_TEXT == <<123, 125>>

\* the loop of decrypt_xdata over the candidate keys
RECURSIVE first_decrypt(_, _, _)
first_decrypt(xdata, xtime_ms, keys) ==
    IF keys = <<>> THEN EMPTY_JSON_TEXT
    ELSE Let([pt \in {_try_decrypt_with_key(xdata, xtime_ms, Head(keys))} |->
             IF pt.ok THEN pt.v ELSE first_decrypt(xdata, xtime_ms, Tail(keys))])

\* decrypt_xdata: returns "{}" on failure
decrypt_xdata(xdata, xtime_ms) ==
    IF xdata = <<>> THEN EMPTY_JSON_TEXT
    ELSE first_decrypt(xdata, xtime_ms, _iter_candidate_keys)

\* encrypt_circle_msisdn: urandom_hex is os.urandom(8).hex(); "" on failure
encrypt_circle_msisdn(msisdn, urandom_hex) ==
    IF msisdn = <<>> THEN <<>>
    ELSE Let([key \in {_key_bytes(ENCRYPTED_FIELD_KEY)} |->
             Let([iv_hex \in {urandom_hex} |->
             Let([iv \in {encode_ascii(iv_hex)} |->
             Let([pt \in {encode_utf8(msisdn)} |->
             IF ~key.ok THEN <<>>
             ELSE IF ~iv.ok \/ ~pt.ok THEN <<>>
             ELSE Let([ct \in {AES_CBC_encrypt(key.v, iv.v, pad(pt.v))} |->
                      IF ct.ok THEN urlsafe_b64encode(ct.v) \o iv_hex ELSE <<>>])])])])])

\* the steps of decrypt_circle_msisdn once the blob is cut into ct_b64 and iv_hex
decrypt_circle_parts(ct_b64, iv_hex) ==
    Let([key \in {_key_bytes(ENCRYPTED_FIELD_KEY)} |->
        Let([iv \in {encode_ascii(iv_hex)} |->
        Let([ct \in {urlsafe_b64decode(_fix_b64(ct_b64))} |->
        IF ~key.ok THEN <<>>
        ELSE IF ~iv.ok \/ ~ct.ok THEN <<>>
        ELSE Let([pt_padded \in {AES_CBC_decrypt(key.v, iv.v, ct.v)} |->
                 IF ~pt_padded.ok THEN <<>>
                 ELSE Let([pt \in {_safe_unpad(pt_padded.v)} |->
                          IF ~pt.ok THEN <<>>
                          ELSE Let([text \in {decode_utf8(pt.v)} |->
                                   IF text.ok THEN text.v ELSE <<>>])])])])])])

\* a decrypt_circle_msisdn that takes the IV from the head of the blob
decrypt_circle_msisdn_iv_first(encrypted_msisdn_b64) ==
    IF encrypted_msisdn_b64 = <<>> \/ Len(encrypted_msisdn_b64) < 16 THEN <<>>
    ELSE decrypt_circle_parts(Tail_n(encrypted_msisdn_b64, 16),
                              SubSeq(encrypted_msisdn_b64, 1, 16))

\* decrypt_circle_msisdn: "" on failure
decrypt_circle_msisdn(encrypted_msisdn_b64) ==
    IF encrypted_msisdn_b64 = <<>> \/ Len(encrypted_msisdn_b64) < 16 THEN <<>>
    ELSE decrypt_circle_parts(SubSeq(encrypted_msisdn_b64, 1, Len(encrypted_msisdn_b64) - 16),
                              Last_n(encrypted_msisdn_b64, 16))

\* HMAC-SHA512 / HMAC-SHA256 digests are represented symbolically by the
\* algorithm and the key and message bytes they were computed from, so two
\* digests are equal exactly when algorithm, key and message are equal.
HMAC(alg, key_bytes, msg_bytes) == <<alg, key_bytes, msg_bytes>>

\* _hmac_sha512_hex: "" when str.encode raises
_hmac_sha512_hex(key_str, msg_str) ==
    Let([k \in {encode_utf8(key_str)} |->
        Let([m \in {encode_utf8(msg_str)} |->
        IF k.ok /\ m.ok THEN HMAC("sha512-hex", k.v, m.v) ELSE <<>>])])

\* "#ae-hei_9Tee6he+Ik3Gais5="
SIG_MARKER ==
    <<35, 97, 101, 45, 104, 101, 105, 95, 57, 84, 101, 101, 54, 104, 101, 43, 73, 107, 51,
      71, 97, 105, 115, 53, 61>>

SEMI == <<59>>

POST == <<80, 79, 83, 84>>

\* f"{x}" of a value taken from parsed JSON or passed by a caller
fmt(x) ==
    CASE x.t = "str" -> x.v
      [] x.t = "int" -> IF x.v < 0 THEN <<45>> \o str_int(0 - x.v) ELSE str_int(x.v)
      [] x.t = "lit" /\ x.v = "null" -> <<78, 111, 110, 101>>
      [] x.t = "lit" /\ x.v = "true" -> <<84, 114, 117, 101>>
      [] x.t = "lit" /\ x.v = "false" -> <<70, 97, 108, 115, 101>>

\* ";".join(parts)
RECURSIVE join_semi(_)
join_semi(parts) ==
    IF parts = <<>> THEN <<>>
    ELSE IF Len(parts) = 1 THEN parts[1]
    ELSE parts[1] \o SEMI \o join_semi(Tail(parts))

\* make_x_signature
make_x_signature(id_token, method, path, sig_time_sec) ==
    Let([key_str \in {join_semi(<<X_API_BASE_SECRET, id_token, method, path, fmt(sig_time_sec)>>)} |->
        Let([msg_str \in {join_semi(<<id_token, fmt(sig_time_sec)>>) \o SEMI} |->
        _hmac_sha512_hex(key_str, msg_str)])])

\* make_x_signature_payment with payment_method before payment_for in the message
make_x_signature_payment_swapped(access_token, sig_time_sec, package_code, token_payment, payment_method, payment_for, path) ==
    Let([key_str \in {join_semi(<<X_API_BASE_SECRET, fmt(sig_time_sec) \o SIG_MARKER, POST, path,
                               fmt(sig_time_sec)>>)} |->
        Let([msg_str \in {join_semi(<<access_token, token_payment, fmt(sig_time_sec), payment_method,
                               payment_for, package_code>>) \o SEMI} |->
        _hmac_sha512_hex(key_str, msg_str)])])

\* make_x_signature_payment
make_x_signature_payment(access_token, sig_time_sec, package_code, token_payment, payment_method, payment_for, path) ==
    Let([key_str \in {join_semi(<<X_API_BASE_SECRET, fmt(sig_time_sec) \o SIG_MARKER, POST, path,
                               fmt(sig_time_sec)>>)} |->
        Let([msg_str \in {join_semi(<<access_token, token_payment, fmt(sig_time_sec), payment_for,
                               payment_method, package_code>>) \o SEMI} |->
        _hmac_sha512_hex(key_str, msg_str)])])

\* "api/v8/personalization/bounties-exchange"
PATH_BOUNTY ==
    <<97, 112, 105, 47, 118, 56, 47, 112, 101, 114, 115, 111, 110, 97, 108, 105, 122, 97,
      116, 105, 111, 110, 47, 98, 111, 117, 110, 116, 105, 101, 115, 45, 101, 120, 99, 104,
      97, 110, 103, 101>>

\* make_x_signature_bounty
make_x_signature_bounty(access_token, sig_time_sec, package_code, token_payment) ==
    Let([path \in {PATH_BOUNTY} |->
        Let([key_str \in {join_semi(<<X_API_BASE_SECRET, access_token, fmt(sig_time_sec) \o SIG_MARKER,
                               POST, path, fmt(sig_time_sec)>>)} |->
        Let([msg_str \in {join_semi(<<access_token, token_payment, fmt(sig_time_sec), package_code>>)
                   \o SEMI} |->
        _hmac_sha512_hex(key_str, msg_str)])])])

\* make_x_signature_loyalty with the path left out of the signing key
make_x_signature_loyalty_any_path(sig_time_sec, package_code, token_confirmation, path) ==
    Let([key_str \in {join_semi(<<X_API_BASE_SECRET, fmt(sig_time_sec) \o SIG_MARKER, POST,
                               fmt(sig_time_sec)>>)} |->
        Let([msg_str \in {join_semi(<<token_confirmation, fmt(sig_time_sec), package_code>>) \o SEMI} |->
        _hmac_sha512_hex(key_str, msg_str)])])

\* make_x_signature_loyalty
make_x_signature_loyalty(sig_time_sec, package_code, token_confirmation, path) ==
    Let([key_str \in {join_semi(<<X_API_BASE_SECRET, fmt(sig_time_sec) \o SIG_MARKER, POST, path,
                               fmt(sig_time_sec)>>)} |->
        Let([msg_str \in {join_semi(<<token_confirmation, fmt(sig_time_sec), package_code>>) \o SEMI} |->
        _hmac_sha512_hex(key_str, msg_str)])])

\* make_x_signature_bounty_allotment
make_x_signature_bounty_allotment(sig_time_sec, package_code, token_confirmation, path, destination_msisdn) ==
    Let([key_str \in {join_semi(<<X_API_BASE_SECRET, fmt(sig_time_sec) \o SIG_MARKER,
                               destination_msisdn, POST, path, fmt(sig_time_sec)>>)} |->
        Let([msg_str \in {join_semi(<<token_confirmation, fmt(sig_time_sec), destination_msisdn,
                               package_code>>) \o SEMI} |->
        _hmac_sha512_hex(key_str, msg_str)])])

\* "password", "openid"
PASSWORD == <<112, 97, 115, 115, 119, 111, 114, 100>>

OPENID == <<111, 112, 101, 110, 105, 100>>

\* a make_ax_api_signature that encodes its key as UTF-8
make_ax_api_signature_utf8_key(ts_for_sign, contact, code, contact_type) ==
    IF AX_API_SIG_KEY = <<>> THEN <<>>
    ELSE Let([key_bytes \in {encode_utf8(AX_API_SIG_KEY)} |->
             Let([preimage \in {encode_utf8(ts_for_sign \o PASSWORD \o contact_type \o contact \o code
                                     \o OPENID)} |->
             IF key_bytes.ok /\ preimage.ok
             THEN HMAC("sha256-b64", key_bytes.v, preimage.v) ELSE <<>>])])

\* make_ax_api_signature: base64 of an HMAC-SHA256 digest, "" on failure
make_ax_api_signature(ts_for_sign, contact, code, contact_type) ==
    IF AX_API_SIG_KEY = <<>> THEN <<>>
    ELSE Let([key_bytes \in {encode_ascii(AX_API_SIG_KEY)} |->
             Let([preimage \in {encode_utf8(ts_for_sign \o PASSWORD \o contact_type \o contact \o code
                                     \o OPENID)} |->
             IF key_bytes.ok /\ preimage.ok
             THEN HMAC("sha256-b64", key_bytes.v, preimage.v) ELSE <<>>])])

\* ------------------------------------------------------------------------
\* app/client/encrypt.py
\* ------------------------------------------------------------------------

\* "xdata", "xtime"
K_XDATA == <<120, 100, 97, 116, 97>>

K_XTIME == <<120, 116, 105, 109, 101>>

JNULL == JLit("null")

\* x is None
IsNone(x) == x.t = "lit" /\ x.v = "null"

\* dict.get(key): None when the key is absent
dict_get(d, k) == IF k \in Keys(d.v) THEN DictGet(d.v, k) ELSE JNULL

\* bool(x) is False
Falsy(x) ==
    CASE x.t = "lit" -> x.v \in {"null", "false"}
      [] x.t = "int" -> x.v = 0
      [] x.t \in {"str", "obj", "arr"} -> x.v = <<>>
      [] OTHER -> FALSE

\* _safe_int: ok = FALSE is None.  bool and float values are outside the
\* timestamps the model represents.
_safe_int(value) ==
    CASE value.t = "lit" /\ value.v = "null" -> [ok |-> FALSE, v |-> 0]
      [] value.t = "int" -> [ok |-> TRUE, v |-> value.v]
      [] value.t = "str" -> int_of_str(strip(value.v))
      [] OTHER -> [ok |-> FALSE, v |-> 0]

\* _aes_key_bytes with the lengths 16, 24, 32 and utf-8: ok = FALSE is None
_aes_key_bytes(key) ==
    IF key = <<>> THEN [ok |-> FALSE, v |-> <<>>]
    ELSE Let([b \in {encode_utf8(key)} |->
             IF b.ok /\ Len(b.v) \in {16, 24, 32} THEN b ELSE [ok |-> FALSE, v |-> <<>>]])

\* EncryptionService.build_encrypted_field: token_hex is secrets.token_hex(8);
\* "" on failure
build_encrypted_field(iv_hex16, urlsafe_b64, token_hex) ==
    Let([key_b \in {_aes_key_bytes(ENCRYPTED_FIELD_KEY)} |->
        Let([iv_hex \in {strip(IF Falsy(iv_hex16) THEN token_hex ELSE iv_hex16.v)} |->
        IF ~key_b.ok THEN <<>>
        ELSE IF Len(iv_hex) /= 16 \/ (\E i \in 1..Len(iv_hex) : iv_hex[i] \notin HEXDIGITS)
        THEN <<>>
        ELSE Let([ct \in {AES_CBC_encrypt(key_b.v, encode_ascii(iv_hex).v, pad(<<>>))} |->
                 IF ~ct.ok THEN <<>>
                 ELSE (IF urlsafe_b64 THEN urlsafe_b64encode(ct.v) ELSE b64encode(ct.v))
                          \o iv_hex])])])

\* Outcome of a Python call: a returned value, or an exception that escaped
Return(value) == [raised |-> FALSE, v |-> value]

RAISED == [raised |-> TRUE, v |-> NONE]

\* try: ... except Exception: return fallback
try_except(outcome, fallback) == IF outcome.raised THEN Return(fallback) ELSE outcome

\* "x_signature", "encrypted_body"
K_X_SIGNATURE == <<120, 95, 115, 105, 103, 110, 97, 116, 117, 114, 101>>

K_ENCRYPTED_BODY == <<101, 110, 99, 114, 121, 112, 116, 101, 100, 95, 98, 111, 100, 121>>

\* the body of the try block of encrypt_and_sign_xdata;
\* xtime is int(time.time() * 1000)
encrypt_and_sign_try(method, path, id_token, payload, xtime) ==
    Let([plain_body \in {_safe_json_dumps(payload)} |->
        Let([xdata \in {encrypt_xdata(plain_body, JInt(xtime))} |->
        Let([sig_time_sec \in {sig_time_of(xtime)} |->
        Let([x_sig \in {make_x_signature(id_token, method, path, JInt(sig_time_sec))} |->
        IF xdata = <<>> THEN RAISED
        ELSE IF x_sig = <<>> THEN RAISED
        ELSE Return([empty |-> FALSE, x_signature |-> x_sig,
                     encrypted_body |->
                         JObj(<< <<K_XDATA, JStr(xdata)>>, <<K_XTIME, JInt(xtime)>> >>)])])])])])

\* the {} returned on failure
NO_ENVELOPE == [empty |-> TRUE, x_signature |-> <<>>, encrypted_body |-> EMPTY_DICT]

\* encrypt_and_sign_xdata without its except clause
encrypt_and_sign_xdata_uncaught(method, path, id_token, payload, xtime) ==
    encrypt_and_sign_try(method, path, id_token, payload, xtime)

\* EncryptionService.encrypt_and_sign_xdata
encrypt_and_sign_xdata(method, path, id_token, payload, xtime) ==
    try_except(encrypt_and_sign_try(method, path, id_token, payload, xtime), NO_ENVELOPE)

\* encryptsign_xdata: a payload that is not a dict is replaced by {}
encryptsign_xdata(method, path, id_token, payload, xtime) ==
    encrypt_and_sign_xdata(method, path, id_token,
                           IF IsDict(payload) THEN payload ELSE EMPTY_DICT, xtime)

\* the body of the try block of decrypt_xdata_payload
decrypt_xdata_payload_try(encrypted_payload) ==
    IF ~IsDict(encrypted_payload) THEN RAISED
    ELSE Let([xdata \in {dict_get(encrypted_payload, K_XDATA)} |->
             Let([xtime \in {dict_get(encrypted_payload, K_XTIME)} |->
             Let([xtime_i \in {_safe_int(xtime)} |->
             IF Falsy(xdata) \/ IsNone(xtime) THEN RAISED
             ELSE IF ~xtime_i.ok THEN RAISED
             ELSE Let([plaintext \in {decrypt_xdata(fmt(xdata), JInt(xtime_i.v))} |->
                      Let([parsed \in {json_loads(plaintext)} |->
                      IF ~parsed.ok THEN Return(EMPTY_DICT)
                      ELSE IF IsDict(parsed.v) THEN Return(parsed.v)
                      ELSE Return(EMPTY_DICT)])])])])])

\* decrypt_xdata_payload without its except clause
decrypt_xdata_payload_uncaught(encrypted_payload) ==
    decrypt_xdata_payload_try(encrypted_payload)

\* EncryptionService.decrypt_xdata_payload: every exception becomes {}
decrypt_xdata_payload(encrypted_payload) ==
    try_except(decrypt_xdata_payload_try(encrypted_payload), EMPTY_DICT)

\* decrypt_xdata(api_key, encrypted_payload) of app/client/encrypt.py
client_decrypt_xdata(encrypted_payload) ==
    decrypt_xdata_payload(IF IsDict(encrypted_payload) THEN encrypted_payload ELSE EMPTY_DICT)

\* ------------------------------------------------------------------------
\* app/client/engsel.py
\* ------------------------------------------------------------------------

\* d[k] = value: replaces the entry in place or appends a new one
dict_set(d, k, value) ==
    IF k \in Keys(d.v)
    THEN JObj([i \in 1..Len(d.v) |-> IF d.v[i][1] = k THEN <<k, value>> ELSE d.v[i]])
    ELSE JObj(Append(d.v, <<k, value>>))

\* d.setdefault(k, value)
dict_setdefault(d, k, value) == IF k \in Keys(d.v) THEN d ELSE dict_set(d, k, value)

K_STATUS == <<115, 116, 97, 116, 117, 115>>

K_CATEGORY == <<99, 97, 116, 101, 103, 111, 114, 121>>

K_MESSAGE == <<109, 101, 115, 115, 97, 103, 101>>

K_HTTP_STATUS == <<104, 116, 116, 112, 95, 115, 116, 97, 116, 117, 115>>

K_RETRY_AFTER == <<114, 101, 116, 114, 121, 95, 97, 102, 116, 101, 114>>

K_DATA == <<100, 97, 116, 97>>

K_RAW == <<114, 97, 119>>

S_ERROR == <<69, 82, 82, 79, 82>>

S_SUCCESS == <<83, 85, 67, 67, 69, 83, 83>>

\* {"status": "ERROR", "category": category, "message": message}
error_dict(category, message) ==
    JObj(<< <<K_STATUS, JStr(S_ERROR)>>, <<K_CATEGORY, JStr(category)>>,
            <<K_MESSAGE, JStr(message)>> >>)

\* _as_str
_as_str(x) == IF IsNone(x) THEN <<>> ELSE fmt(x)

\* _safe_dict
_safe_dict(x) == IF IsDict(x) THEN x ELSE EMPTY_DICT

\* _classify_http
_classify_http(status_code) ==
    IF status_code = 401 THEN <<65, 85, 84, 72>>
    ELSE IF status_code = 429 THEN <<82, 65, 84, 69, 95, 76, 73, 77, 73, 84>>
    ELSE IF 500 <= status_code /\ status_code <= 599 THEN <<83, 69, 82, 86, 69, 82>>
    ELSE IF 400 <= status_code /\ status_code <= 499 THEN <<67, 76, 73, 69, 78, 84>>
    ELSE <<79, 75>>

\* a response header that is not there
NO_HEADER == [present |-> FALSE, v |-> <<>>]

\* _parse_retry_after on the Retry-After header (NO_HEADER when absent)
_parse_retry_after(ra) ==
    IF ~ra.present THEN JNULL
    ELSE IF ra.v = <<>> THEN JNULL
    ELSE Let([s \in {strip(ra.v)} |->
             IF s /= <<>> /\ Len(s) <= 9 /\ (\A i \in 1..Len(s) : s[i] \in DIGITS)
             THEN JInt(digits_value(s, 0)) ELSE JNULL])

\* EngselClient._decrypt_if_possible
_decrypt_if_possible(response_json) ==
    IF ~IsDict(response_json) THEN EMPTY_DICT
    ELSE IF K_XDATA \notin Keys(response_json.v) \/ K_XTIME \notin Keys(response_json.v)
         THEN EMPTY_DICT
    ELSE Let([dec \in {client_decrypt_xdata(response_json)} |->
             IF dec.raised THEN EMPTY_DICT
             ELSE IF IsDict(dec.v) THEN dec.v ELSE EMPTY_DICT])

\* An HTTP exchange: what the network does with a request that is sent.
\*   kind = "timeout" | "neterr" | "response"; status; is_json and json = the
\*   parsed body; text = resp.text; retry_after = the Retry-After header
IsResponse(net) == net.kind = "response"

\* resp.json() of _send_request with its fallbacks
response_json_of(net) ==
    IF ~net.is_json THEN JObj(<< <<K_RAW, JStr(net.text)>> >>)
    ELSE IF ~IsDict(net.json) THEN JObj(<< <<K_RAW, net.json>> >>)
    ELSE net.json

\* a request whose body also carries the signature
engsel_request_signed_body(method_u, path, id_token, encrypted_data, sig_time_sec) ==
    [method |-> method_u, path |-> path,
     x_hv |-> <<118, 51>>,
     x_signature_time |-> sig_time_sec,
     x_signature |-> encrypted_data.x_signature,
     authorization |-> IF strip(id_token) /= <<>> THEN <<66, 101, 97, 114, 101, 114,
           32>> \o strip(id_token) ELSE <<>>,
     body |-> IF method_u = POST
              THEN dict_set(encrypted_data.encrypted_body, K_X_SIGNATURE,
                            JStr(<<>>))
              ELSE NONE,
     envelope |-> encrypted_data.encrypted_body]

\* the request _send_request puts on the wire
engsel_request(method_u, path, id_token, encrypted_data, sig_time_sec) ==
    [method |-> method_u, path |-> path,
     x_hv |-> <<118, 51>>,
     x_signature_time |-> sig_time_sec,
     x_signature |-> encrypted_data.x_signature,
     authorization |-> IF strip(id_token) /= <<>> THEN <<66, 101, 97, 114, 101, 114,
           32>> \o strip(id_token) ELSE <<>>,
     body |-> IF method_u = POST THEN encrypted_data.encrypted_body ELSE NONE,
     envelope |-> encrypted_data.encrypted_body]

\* str.upper() on the ASCII range
upper(s) == [i \in 1..Len(s) |-> IF s[i] \in 97..122 THEN s[i] - 32 ELSE s[i]]

\* steps 3 and 4 of _send_request: parse, decrypt, classify
send_request_result(net) ==
    Let([http_status \in {net.status} |->
        Let([category \in {_classify_http(http_status)} |->
        Let([response_json \in {response_json_of(net)} |->
        Let([decrypted \in {_decrypt_if_possible(response_json)} |->
        Let([final_payload \in {IF NonEmptyDict(decrypted) THEN decrypted ELSE response_json} |->
        Let([out0 \in {dict_set(dict_set(dict_setdefault(_safe_dict(final_payload), K_STATUS,
                                                  JStr(S_ERROR)),
                                  K_HTTP_STATUS, JInt(http_status)),
                         K_CATEGORY, JStr(category))} |->
        Let([out \in {IF category = <<82, 65, 84, 69, 95, 76, 73, 77, 73, 84>>
               THEN dict_setdefault(dict_set(out0, K_RETRY_AFTER,
                                             _parse_retry_after(net.retry_after)),
                                    K_MESSAGE, JStr(<<82, 97, 116, 101, 32, 108, 105, 109, 105,
                                          116, 101, 100, 32, 40, 72, 84, 84, 80, 32, 52, 50,
                                          57, 41>>))
               ELSE IF category = <<65, 85, 84, 72>>
               THEN dict_setdefault(out0, K_MESSAGE,
                        JStr(<<85, 110, 97, 117, 116, 104, 111, 114, 105, 122, 101, 100, 32,
                              40, 72, 84, 84, 80, 32, 52, 48, 49, 41, 32, 45, 32, 116, 111,
                              107, 101, 110, 32, 109, 97, 121, 32, 98, 101, 32, 101, 120, 112,
                              105, 114, 101, 100, 47, 105, 110, 118, 97, 108, 105, 100>>))
               ELSE IF category = <<83, 69, 82, 86, 69, 82>>
               THEN dict_setdefault(out0, K_MESSAGE,
                        JStr(<<83, 101, 114, 118, 101, 114, 32, 101, 114, 114, 111, 114, 32,
                              40, 72, 84, 84, 80, 32>> \o str_int(http_status) \o <<41>>))
               ELSE dict_setdefault(out0, K_MESSAGE,
                        JStr(<<72, 84, 84, 80, 32, 101, 114, 114, 111, 114, 32, 40, 72, 84, 84,
                              80, 32>> \o str_int(http_status) \o <<41>>))} |->
        IF http_status >= 400 THEN out
        ELSE IF NonEmptyDict(final_payload) THEN final_payload
        ELSE JObj(<< <<K_STATUS, JStr(S_SUCCESS)>>, <<K_HTTP_STATUS, JInt(http_status)>>,
                     <<K_DATA, final_payload>> >>)])])])])])])])

\* EngselClient._send_request.  cfg_api_key is config.api_key, xtime the clock
\* reading of the encryption, net the network's answer if a request is sent.
\* The outcome carries the requests sent in field http.
_send_request(cfg_api_key, path, payload, id_token, method, xtime, net) ==
    Let([method_u \in {strip(upper(IF method = <<>> THEN POST ELSE method))} |->
        Let([enc \in {encryptsign_xdata(method_u, path, id_token, payload, xtime)} |->
        Let([encrypted_data \in {enc.v} |->
        Let([sig_time_sec \in {str_int(sig_time_of(_safe_int(dict_get(encrypted_data.encrypted_body,
                                                               K_XTIME)).v))} |->
        Let([request \in {engsel_request(method_u, path, id_token, encrypted_data, sig_time_sec)} |->
        IF cfg_api_key = <<>>
        THEN [raised |-> FALSE, v |-> error_dict(<<67, 79, 78, 70, 73, 71>>, <<77, 105, 115,
              115, 105, 110, 103, 32, 65, 80, 73, 32, 75, 101, 121>>),
              http |-> <<>>]
        ELSE IF enc.raised \/ encrypted_data.empty
        THEN [raised |-> FALSE,
              v |-> error_dict(<<67, 82, 89, 80, 84, 79>>,
                        <<69, 110, 99, 114, 121, 112, 116, 105, 111, 110, 32, 102, 97, 105,
                              108, 101, 100, 58, 32, 69, 110, 99, 114, 121, 112, 116, 105, 111,
                              110, 32, 114, 101, 116, 117, 114, 110, 101, 100, 32, 101, 109,
                              112, 116, 121, 47, 105, 110, 118, 97, 108, 105, 100, 32, 100, 97,
                              116, 97>>),
              http |-> <<>>]
        ELSE IF net.kind = "timeout"
        THEN [raised |-> FALSE, v |-> error_dict(<<84, 73, 77, 69, 79, 85, 84>>, <<82, 101,
              113, 117, 101, 115, 116, 32, 116, 105, 109, 101, 100, 32, 111, 117, 116>>),
              http |-> <<request>>]
        ELSE IF net.kind = "neterr"
        THEN [raised |-> FALSE, v |-> error_dict(<<78, 69, 84, 87, 79, 82, 75>>, <<78, 101,
              116, 119, 111, 114, 107, 32, 101, 114, 114, 111, 114, 58, 32>> \o net.text),
              http |-> <<request>>]
        ELSE [raised |-> FALSE, v |-> send_request_result(net), http |-> <<request>>]])])])])])

\* ------------------------------------------------------------------------
\* Inputs of the model
\* ------------------------------------------------------------------------

\* 16-byte keys: K_B differs from K_A in the first byte, K_D in the last
K_A == <<48, 49, 50, 51, 52, 53, 54, 55, 56, 57, 97, 98, 99, 100, 101, 102>>

K_B == <<49, 49, 50, 51, 52, 53, 54, 55, 56, 57, 97, 98, 99, 100, 101, 102>>

K_D == <<48, 49, 50, 51, 52, 53, 54, 55, 56, 57, 97, 98, 99, 100, 101, 103>>

\* a 24-byte and a 32-byte key
K_24 == <<48, 49, 50, 51, 52, 53, 54, 55, 56, 57, 97, 98, 99, 100, 101, 102, 103, 104, 105,
      106, 107, 108, 109, 110>>

K_32 == <<48, 49, 50, 51, 52, 53, 54, 55, 56, 57, 97, 98, 99, 100, 101, 102, 103, 104, 105,
      106, 107, 108, 109, 110, 111, 112, 113, 114, 115, 116, 117, 118>>

\* the bytes of K_A written as hex: and as b64:
K_A_HEX == <<104, 101, 120, 58, 51, 48, 51, 49, 51, 50, 51, 51, 51, 52, 51, 53, 51, 54, 51, 55,
      51, 56, 51, 57, 54, 49, 54, 50, 54, 51, 54, 52, 54, 53, 54, 54>>

K_A_B64 == <<98, 54, 52, 58, 77, 68, 69, 121, 77, 122, 81, 49, 78, 106, 99, 52, 79, 87, 70,
      105, 89, 50, 82, 108, 90, 103, 61, 61>>

\* a key of 5 bytes
K_SHORT == <<115, 104, 111, 114, 116>>

JArr(items) == Tagged("arr", items)

P_STATUS == JObj(<< <<K_STATUS, JStr(S_SUCCESS)>> >>)

P_AB == JObj(<< <<<<97>>, JStr(<<98>>)>> >>)

P_NESTED == JObj(<< <<<<107>>, JArr(<<JInt(1), JObj(<< <<<<233>>, JNULL>> >>)>>)>> >>)

\* a payload whose JSON text cannot be encoded as UTF-8 (lone surrogate)
P_SURROGATE == JObj(<< <<<<97>>, JStr(<<55296>>)>> >>)

Payloads == {P_STATUS, P_AB, P_NESTED, EMPTY_DICT}

\* clock readings in ms after 1700000000000
Times == {0, 2500}

\* xtime_ms arguments: the clock readings, a text that is no number, None
XTimes == {JInt(t) : t \in Times} \cup {JStr(<<97, 98, 99>>), JNULL}

\* timestamps an envelope can be re-stamped with
TamperTimes == {0, 1, 2500, 34348245}

\* what a peer can put into an envelope: the JSON text of a payload, or
\* bytes that are not the JSON text of an object ("[1]", "abc", invalid UTF-8)
PeerMessages ==
    {[payload |-> P, plaintext |-> encode_utf8(_safe_json_dumps(P)).v] : P \in Payloads}
        \cup {[payload |-> NONE, plaintext |-> pt] :
                  pt \in {<<91, 49, 93>>, <<97, 98, 99>>, <<255, 254>>}}

PeerKeys == {K_A, K_24}

Tokens == {<<>>, <<84>>}

PATH_GENERIC == <<97, 112, 105, 47, 118, 56, 47, 112, 114, 111, 102, 105, 108, 101>>

\* ------------------------------------------------------------------------
\* The envelope in flight
\* ------------------------------------------------------------------------

NO_WIRE == [body |-> NONE, payload |-> NONE, plaintext |-> <<>>, t |-> 0, key |-> <<>>,
            by |-> "nobody", tamper |-> "none"]

\* the envelope a peer holding key_str builds for the bytes pt at time t:
\* the steps of encrypt_xdata with the key passed in
encrypt_with(key_str, pt, xtime_ms) ==
    Let([key \in {_key_bytes(key_str)} |->
        Let([ct \in {AES_CBC_encrypt(key.v, derive_iv(JInt(xtime_ms)), pad(pt))} |->
        IF key.ok /\ ct.ok THEN urlsafe_b64encode(ct.v) ELSE <<>>])])

envelope(xdata, xtime_ms) == JObj(<< <<K_XDATA, JStr(xdata)>>, <<K_XTIME, JInt(xtime_ms)>> >>)

TamperKinds ==
    {"xtime", "retype", "truncate", "garbage", "drop_xdata", "drop_xtime", "xtime_text",
     "not_a_dict"}

\* what a tampering of kind k does to the body of an envelope
tampered(body, k, t2) ==
    Let([xdata \in {DictGet(body.v, K_XDATA)} |->
        Let([xtime \in {DictGet(body.v, K_XTIME)} |->
        CASE k = "xtime" -> envelope(xdata.v, t2)
          [] k = "retype" -> JObj(<< <<K_XDATA, xdata>>, <<K_XTIME,
                JStr(xtime_str(xtime.v))>> >>)
          [] k = "truncate" ->
                JObj(<< <<K_XDATA, JStr(SubSeq(xdata.v, 1, Len(xdata.v) - 4))>>,
                        <<K_XTIME, xtime>> >>)
          [] k = "garbage" -> JObj(<< <<K_XDATA, JStr(<<33, 33, 33>>)>>, <<K_XTIME, xtime>> >>)
          [] k = "drop_xdata" -> JObj(<< <<K_XTIME, xtime>> >>)
          [] k = "drop_xtime" -> JObj(<< <<K_XDATA, xdata>> >>)
          [] k = "xtime_text" -> JObj(<< <<K_XDATA, xdata>>, <<K_XTIME, JStr(<<115, 111, 111,
                110>>)>> >>)
          [] k = "not_a_dict" -> JArr(<<xdata, xtime>>)])])

\* ------------------------------------------------------------------------
\* Actions
\* ------------------------------------------------------------------------

NO_CALL == Outcome("none", FALSE, NONE, NONE)

\* a call returns or raises
Called(op, args, outcome) ==
    /\ pc' = "done"
    /\ ret' = Outcome(op, outcome.raised, outcome.v, args)

\* EncryptionService.encrypt_and_sign_xdata; the envelope goes on the wire
EncryptAndSign ==
    \E payload \in Payloads \cup {P_SURROGATE}, t \in Times, id_token \in Tokens :
        LET out == encrypt_and_sign_xdata(POST, PATH_GENERIC, id_token, payload, t)
        IN  /\ pc = "idle"
            /\ wire = NO_WIRE
            /\ Called("encrypt_and_sign_xdata",
                      [payload |-> payload, t |-> t, id_token |-> id_token], out)
            /\ wire' = IF out.raised \/ out.v.empty THEN wire
                       ELSE [body |-> out.v.encrypted_body, payload |-> payload,
                             plaintext |-> encode_utf8(_safe_json_dumps(payload)).v,
                             t |-> t, key |-> XDATA_KEY, by |-> "client", tamper |-> "none"]
            /\ http' = <<>>
            /\ UNCHANGED <<service_vars, XDATA_KEY, X_API_BASE_SECRET, AX_API_SIG_KEY, ENCRYPTED_FIELD_KEY,
                           env_XDATA_KEYS, earlier, file_xdata_keys, api_key>>

\* crypto_helper.encrypt_xdata called on its own
EncryptXdata ==
    \E payload \in Payloads \cup {P_SURROGATE}, xtime_ms \in XTimes :
        /\ pc = "idle"
        /\ wire = NO_WIRE
        /\ Called("encrypt_xdata", [payload |-> payload, t |-> xtime_ms],
                  Return(encrypt_xdata(_safe_json_dumps(payload), xtime_ms)))
        /\ http' = <<>>
        /\ UNCHANGED <<service_vars, XDATA_KEY, X_API_BASE_SECRET, AX_API_SIG_KEY, ENCRYPTED_FIELD_KEY,
                       env_XDATA_KEYS, earlier, file_xdata_keys, api_key, wire>>

\* the peer encrypts a plaintext under one of its keys
PeerEncrypt ==
    \E key_str \in PeerKeys, m \in PeerMessages, t \in Times :
        /\ pc = "idle"
        /\ wire = NO_WIRE
        /\ wire' = [body |-> envelope(encrypt_with(key_str, m.plaintext, t), t),
                    payload |-> m.payload, plaintext |-> m.plaintext,
                    t |-> t, key |-> key_str, by |-> "peer", tamper |-> "none"]
        /\ UNCHANGED <<service_vars, XDATA_KEY, X_API_BASE_SECRET, AX_API_SIG_KEY, ENCRYPTED_FIELD_KEY,
                       env_XDATA_KEYS, earlier, file_xdata_keys, api_key, pc, ret, http>>

\* the envelope is altered in flight, once
Tamper ==
    \E k \in TamperKinds, t2 \in TamperTimes :
        /\ pc = "idle"
        /\ wire /= NO_WIRE
        /\ wire.tamper = "none"
        /\ k = "xtime" => t2 /= wire.t
        /\ k /= "xtime" => t2 = wire.t
        /\ wire' = [wire EXCEPT !.body = tampered(wire.body, k, t2), !.tamper = k]
        /\ UNCHANGED <<service_vars, XDATA_KEY, X_API_BASE_SECRET, AX_API_SIG_KEY, ENCRYPTED_FIELD_KEY,
                       env_XDATA_KEYS, earlier, file_xdata_keys, api_key, pc, ret, http>>

\* decrypt_xdata(api_key, encrypted_payload) of app/client/encrypt.py on the
\* envelope in flight, which is consumed
Decrypt ==
    /\ pc = "idle"
    /\ wire /= NO_WIRE
    /\ Called("decrypt_xdata", wire, client_decrypt_xdata(wire.body))
    /\ wire' = NO_WIRE
    /\ http' = <<>>
    /\ UNCHANGED <<service_vars, XDATA_KEY, X_API_BASE_SECRET, AX_API_SIG_KEY, ENCRYPTED_FIELD_KEY,
                   env_XDATA_KEYS, earlier, file_xdata_keys, api_key>>

\* the caller takes the outcome
Finish ==
    /\ pc = "done"
    /\ pc' = "idle"
    /\ ret' = NO_CALL
    /\ http' = <<>>
    /\ UNCHANGED <<service_vars, XDATA_KEY, X_API_BASE_SECRET, AX_API_SIG_KEY, ENCRYPTED_FIELD_KEY,
                   env_XDATA_KEYS, earlier, file_xdata_keys, api_key, wire>>

\* ------------------------------------------------------------------------
\* Files.  A path names an inode, or nothing (0); an inode holds the text
\* written to it, and NONE while it is free.  An inode lives as long as a
\* path or an open file refers to it.
\* ------------------------------------------------------------------------

Inodes == 1..4

\* CryptoConfig.fp_file_path
AX_FP == "ax.fp"

\* path.with_suffix(path.suffix + ".tmp")
AX_FP_TMP == "ax.fp.tmp"

Paths == {AX_FP, AX_FP_TMP}

NO_FILES == [links |-> [p \in Paths |-> 0], inodes |-> [i \in Inodes |-> NONE]]

exists(fs, path) == fs.links[path] /= 0

read_text(fs, path) == fs.inodes[fs.links[path]]

\* open(path, "w"): the file is created, or truncated; fd is its inode
open_w(fs, path) ==
    IF exists(fs, path)
    THEN [fs |-> [fs EXCEPT !.inodes[fs.links[path]] = <<>>], fd |-> fs.links[path]]
    ELSE Let([free \in {{i \in Inodes : fs.inodes[i] = NONE}} |->
             Let([fd \in {CHOOSE i \in free : \A j \in free : i <= j} |->
             [fs |-> [fs EXCEPT !.links[path] = fd, !.inodes[fd] = <<>>], fd |-> fd]])])

\* f.write(text); f.flush(); os.fsync(): one write at offset 0 of the open file
write_flush(fs, fd, text) == [fs EXCEPT !.inodes[fd] = text \o Tail_n(@, Len(text))]

\* Path.replace(target): FileNotFoundError (ok = FALSE) when the source is gone
replace(fs, source, target) ==
    IF ~exists(fs, source) THEN [ok |-> FALSE, fs |-> fs]
    ELSE [ok |-> TRUE,
          fs |-> [fs EXCEPT !.links[target] = fs.links[source], !.links[source] = 0]]

\* Path.unlink
unlink(fs, path) == [fs EXCEPT !.links[path] = 0]

\* inodes that no path and no open file (fds) refers to are freed
collect(fs, fds) ==
    [fs EXCEPT !.inodes = [i \in Inodes |->
                              IF i \in fds \/ (\E p \in Paths : fs.links[p] = i)
                              THEN @[i] ELSE NONE]]

\* _atomic_write_text, run without interruption
_atomic_write_text(fs, path, tmp, text) ==
    Let([opened \in {open_w(fs, tmp)} |->
        Let([written \in {write_flush(opened.fs, opened.fd, text)} |->
        Let([replaced \in {replace(written, tmp, path)} |->
        [ok |-> replaced.ok, fs |-> collect(replaced.fs, {})]])])])

\* ------------------------------------------------------------------------
\* The device fingerprint (app/client/encrypt.py)
\* ------------------------------------------------------------------------

\* hashlib.md5(b).hexdigest(), represented by the bytes it was computed from
md5_hexdigest(b) == <<"md5", b>>

BAR == <<124>>

\* the DeviceInfo of load_or_create_fingerprint with its two randint draws
DeviceInfo(n_manufacturer, n_model) ==
    [manufacturer |-> <<86, 101, 114, 116, 117>> \o str_int(n_manufacturer),
     model |-> <<65, 115, 116, 101, 114, 105, 111, 110, 32, 88, 49, 32, 85, 108, 116, 114,
         97>> \o str_int(n_model)]

\* EncryptionService.build_fingerprint_plain
build_fingerprint_plain(dev) ==
    dev.manufacturer \o BAR \o dev.model \o BAR \o <<101, 110>> \o BAR \o <<55, 50, 48, 120, 49,
        53, 52, 48>> \o BAR
        \o <<71, 77, 84, 48, 55, 58, 48, 48>> \o BAR \o <<49, 50, 55, 46, 48, 46, 48, 46,
            49>> \o BAR \o <<49, 46, 48, 48>> \o BAR \o <<49, 52>> \o BAR
        \o <<54, 50, 56, 49, 57, 49, 49, 49, 50, 48, 48, 55, 56>>

STRICT_OFF == {<<48>>, <<102, 97, 108, 115, 101>>, <<110, 111>>, <<111, 102, 102>>}

\* EncryptionService.generate_ax_fingerprint: "" on failure
generate_ax_fingerprint(dev) ==
    Let([strict \in {lower(strip(env_MYXL_AX_FP_KEY_STRICT)) \notin STRICT_OFF} |->
        Let([ascii \in {encode_ascii(AX_FP_KEY)} |->
        Let([utf8 \in {encode_utf8(AX_FP_KEY)} |->
        Let([key_bytes \in {IF strict
                     THEN (IF ascii.ok /\ Len(ascii.v) = 32 THEN ascii
                           ELSE [ok |-> FALSE, v |-> <<>>])
                     ELSE (IF utf8.ok /\ Len(utf8.v) \in {16, 24, 32} THEN utf8
                           ELSE [ok |-> FALSE, v |-> <<>>])} |->
        IF strict /\ Len(AX_FP_KEY) /= 32 THEN <<>>
        ELSE IF AX_FP_KEY = <<>> \/ ~key_bytes.ok THEN <<>>
        ELSE Let([pt \in {encode_utf8(build_fingerprint_plain(dev))} |->
                 Let([ct \in {AES_CBC_encrypt(key_bytes.v, Repeat(0, 16), pad(pt.v))} |->
                 IF pt.ok /\ ct.ok THEN b64encode(ct.v) ELSE <<>>])])])])])])

FALLBACK_FINGERPRINT == <<100, 101, 102, 97, 117, 108, 116, 95, 102, 105, 110, 103, 101, 114,
    112, 114, 105, 110, 116, 95, 102, 97, 108, 108, 98, 97, 99, 107, 95, 101, 114, 114, 111,
    114>>

\* the fingerprint the file holds: p.exists(), read_text().strip() and the
\* length test; "" when there is none
stored_fingerprint(fs) ==
    Let([content \in {IF exists(fs, AX_FP) THEN strip(read_text(fs, AX_FP)) ELSE <<>>} |->
        IF Len(content) > 10 THEN content ELSE <<>>])

\* a variant that generates a fingerprint at every call
load_or_create_fingerprint_always_new(fs, dev) ==
    Let([new_fp \in {generate_ax_fingerprint(dev)} |->
        Let([written \in {_atomic_write_text(fs, AX_FP, AX_FP_TMP, new_fp)} |->
        IF new_fp = <<>> THEN [v |-> FALLBACK_FINGERPRINT, fs |-> fs]
        ELSE [v |-> new_fp, fs |-> written.fs]])])

\* EncryptionService.load_or_create_fingerprint, run without interruption:
\* the value returned and the files afterwards
load_or_create_fingerprint(fs, dev) ==
    Let([content \in {stored_fingerprint(fs)} |->
        Let([new_fp \in {generate_ax_fingerprint(dev)} |->
        Let([written \in {_atomic_write_text(fs, AX_FP, AX_FP_TMP, new_fp)} |->
        IF content /= <<>> THEN [v |-> content, fs |-> fs]
        ELSE IF new_fp = <<>> THEN [v |-> FALLBACK_FINGERPRINT, fs |-> fs]
        ELSE IF ~written.ok THEN [v |-> FALLBACK_FINGERPRINT, fs |-> written.fs]
        ELSE [v |-> new_fp, fs |-> written.fs]])])])

\* EncryptionService.get_ax_device_id
get_ax_device_id(fs, dev) ==
    Let([fp \in {load_or_create_fingerprint(fs, dev)} |->
        [v |-> md5_hexdigest(encode_utf8(fp.v).v), fs |-> fp.fs]])

RandInts == {1000, 9999}

Threads == 1..2

NOT_CALLING == [pc |-> "none", new_fp |-> <<>>, fd |-> 0, v |-> <<>>]

LoadOrCreateFingerprint ==
    \E n_manufacturer \in RandInts, n_model \in RandInts :
        LET fp == load_or_create_fingerprint(files, DeviceInfo(n_manufacturer, n_model))
        IN  /\ pc = "idle"
            /\ files' = fp.fs
            /\ Called("load_or_create_fingerprint", [held |-> stored_fingerprint(files)], Return(fp.v))
            /\ http' = <<>>
            /\ UNCHANGED <<auth_vars, runner, decoy_vars, codec_vars, earlier, AX_FP_KEY, env_MYXL_AX_FP_KEY_STRICT, callers>>

GetAxDeviceId ==
    \E n_manufacturer \in RandInts, n_model \in RandInts :
        LET id == get_ax_device_id(files, DeviceInfo(n_manufacturer, n_model))
        IN  /\ pc = "idle"
            /\ files' = id.fs
            /\ Called("get_ax_device_id", [held |-> stored_fingerprint(files)], Return(id.v))
            /\ http' = <<>>
            /\ UNCHANGED <<auth_vars, runner, decoy_vars, codec_vars, earlier, AX_FP_KEY, env_MYXL_AX_FP_KEY_STRICT, callers>>

\* the file ax.fp is removed between two calls
RemoveFingerprintFile ==
    /\ pc = "idle"
    /\ exists(files, AX_FP)
    /\ files' = collect(unlink(files, AX_FP), {})
    /\ UNCHANGED <<auth_vars, runner, decoy_vars, codec_vars, pc, ret, http, earlier, AX_FP_KEY, env_MYXL_AX_FP_KEY_STRICT,
                   callers>>

\* --- load_or_create_fingerprint line by line, one thread at a time ---

open_fds(c) == {c[t].fd : t \in Threads} \ {0}

\* lines 216-234: the file is looked at; a fingerprint found is returned,
\* otherwise one is generated
LookForFingerprint(t) ==
    \E n_manufacturer \in RandInts, n_model \in RandInts :
        LET content == stored_fingerprint(files)
            new_fp == generate_ax_fingerprint(DeviceInfo(n_manufacturer, n_model))
        IN  /\ callers[t].pc = "called"
            /\ callers' = [callers EXCEPT ![t] =
                   IF content /= <<>> THEN [@ EXCEPT !.pc = "returned", !.v = content]
                   ELSE IF new_fp = <<>>
                   THEN [@ EXCEPT !.pc = "returned", !.v = FALLBACK_FINGERPRINT]
                   ELSE [@ EXCEPT !.pc = "open", !.new_fp = new_fp]]
            /\ UNCHANGED <<auth_vars, runner, decoy_vars, codec_vars, pc, ret, http, earlier, AX_FP_KEY,
                           env_MYXL_AX_FP_KEY_STRICT, files>>

\* _atomic_write_text, tmp.open("w")
OpenTmp(t) ==
    LET opened == open_w(files, AX_FP_TMP)
    IN  /\ callers[t].pc = "open"
        /\ files' = opened.fs
        /\ callers' = [callers EXCEPT ![t] = [@ EXCEPT !.pc = "write", !.fd = opened.fd]]
        /\ UNCHANGED <<auth_vars, runner, decoy_vars, codec_vars, pc, ret, http, earlier, AX_FP_KEY, env_MYXL_AX_FP_KEY_STRICT>>

\* _atomic_write_text, f.write .. os.fsync and the end of the with block
WriteTmp(t) ==
    /\ callers[t].pc = "write"
    /\ callers' = [callers EXCEPT ![t] = [@ EXCEPT !.pc = "replace", !.fd = 0]]
    /\ files' = collect(write_flush(files, callers[t].fd, callers[t].new_fp), open_fds(callers'))
    /\ UNCHANGED <<auth_vars, runner, decoy_vars, codec_vars, pc, ret, http, earlier, AX_FP_KEY, env_MYXL_AX_FP_KEY_STRICT>>

\* _atomic_write_text, tmp.replace(path), and the return or the except clause
\* of load_or_create_fingerprint
ReplaceTmp(t) ==
    LET replaced == replace(files, AX_FP_TMP, AX_FP)
    IN  /\ callers[t].pc = "replace"
        /\ files' = collect(replaced.fs, open_fds(callers))
        /\ callers' = [callers EXCEPT ![t] =
               [@ EXCEPT !.pc = "returned",
                         !.v = IF replaced.ok THEN callers[t].new_fp
                               ELSE FALLBACK_FINGERPRINT]]
        /\ UNCHANGED <<auth_vars, runner, decoy_vars, codec_vars, pc, ret, http, earlier, AX_FP_KEY, env_MYXL_AX_FP_KEY_STRICT>>

\* ------------------------------------------------------------------------
\* The account list (app/service/auth.py).  The Auth object is the record
\* [refresh_tokens, active_user, last_refresh_time, pending, token_file,
\* active_file]; None is NO_USER for active_user, JNULL for the pending
\* number and 0 for the file active.number when it does not exist.  The file
\* refresh-tokens.json is represented by the list it was dumped from.  A
\* method is computed from the object, the clock and the answers of the
\* server to the requests it makes; it yields the object afterwards, the
\* value returned and the token requests sent.
\* ------------------------------------------------------------------------

_REFRESH_INTERVAL_SECONDS == 240

PREPAID == <<80, 82, 69, 80, 65, 73, 68>>

NO_TOKENS == [access_token |-> <<>>, refresh_token |-> <<>>]

NO_USER == [number |-> 0, subscriber_id |-> <<>>, subscription_type |-> <<>>, tokens |-> NO_TOKENS]

Entry(number, subscriber_id, refresh_token) ==
    [number |-> number, subscriber_id |-> subscriber_id, subscription_type |-> PREPAID,
     refresh_token |-> refresh_token]

\* the answer of the server to a token request: ok = FALSE when
\* get_new_token returns None
TokenAnswer(ok, access_token, refresh_token) ==
    [ok |-> ok, tokens |-> [access_token |-> access_token, refresh_token |-> refresh_token]]

TokenRequest(refresh_token, subscriber_id) ==
    [refresh_token |-> refresh_token, subscriber_id |-> subscriber_id]

Did(auth, v, sent) == [auth |-> auth, v |-> v, sent |-> sent]

\* a variant that finds no entry
first_with_number_none(tokens, n) == 0

\* next((i for rt in refresh_tokens if rt.get("number") == n), None), 0 for None
first_with_number(tokens, n) ==
    IF \E i \in DOMAIN tokens : tokens[i].number = n
    THEN CHOOSE i \in DOMAIN tokens :
             tokens[i].number = n /\ \A j \in DOMAIN tokens : tokens[j].number = n => i <= j
    ELSE 0

\* [rt for rt in tokens if rt.get("number") != n]
RECURSIVE without_number(_, _)
without_number(tokens, n) ==
    IF tokens = <<>> THEN <<>>
    ELSE IF Head(tokens).number = n THEN without_number(Tail(tokens), n)
    ELSE <<Head(tokens)>> \o without_number(Tail(tokens), n)

\* Auth._load_tokens: the entries of the file that have a number and a token
RECURSIVE cleaned_entries(_)
cleaned_entries(items) ==
    IF items = <<>> THEN <<>>
    ELSE Let([t \in {Head(items)} |->
             Let([n \in {_safe_int(t.number)} |->
             IF ~n.ok \/ strip(t.refresh_token) = <<>> THEN cleaned_entries(Tail(items))
             ELSE <<Entry(n.v, strip(t.subscriber_id), strip(t.refresh_token))>>
                      \o cleaned_entries(Tail(items))])])

\* the items of refresh-tokens.json after json.dumps of the list
dumped(tokens) == [i \in DOMAIN tokens |-> [tokens[i] EXCEPT !.number = JInt(@)]]

\* Auth._save_tokens
_save_tokens(auth) == [auth EXCEPT !.token_file = dumped(auth.refresh_tokens)]

\* Auth.set_active_user
set_active_user(auth, number, now, answer) ==
    Let([n \in {_safe_int(number)} |->
        Let([at \in {first_with_number(auth.refresh_tokens, n.v)} |->
        IF ~n.ok \/ api_key = <<>> THEN Did(auth, FALSE, <<>>)
        ELSE IF at = 0 THEN Did(auth, FALSE, <<>>)
        ELSE Let([target \in {auth.refresh_tokens[at]} |->
                 Let([request \in {TokenRequest(strip(target.refresh_token), strip(target.subscriber_id))} |->
                 Let([new_rt \in {strip(IF answer.tokens.refresh_token /= <<>>
                                 THEN answer.tokens.refresh_token ELSE target.refresh_token)} |->
                 Let([saved \in {_save_tokens([auth EXCEPT !.refresh_tokens[at].refresh_token = new_rt])} |->
                 IF ~answer.ok THEN Did(auth, FALSE, <<request>>)
                 ELSE Did([saved EXCEPT !.active_user =
                                            [number |-> n.v,
                                             subscriber_id |-> strip(target.subscriber_id),
                                             subscription_type |-> target.subscription_type,
                                             tokens |-> answer.tokens],
                                        !.last_refresh_time = now,
                                        !.active_file = n.v],
                          TRUE, <<request>>)])])])])])])

\* Auth.add_refresh_token: sub_id is the subscriber id of the profile
\* fetched, ok = FALSE when get_profile returns nothing
add_refresh_token(auth, number, refresh_token, now, token_answer, sub_id, switch_answer) ==
    Let([n \in {_safe_int(number)} |->
        Let([request \in {TokenRequest(strip(refresh_token), <<>>)} |->
        IF ~n.ok \/ strip(refresh_token) = <<>> \/ api_key = <<>> THEN Did(auth, FALSE, <<>>)
        ELSE IF ~token_answer.ok \/ ~sub_id.ok THEN Did(auth, FALSE, <<request>>)
        ELSE Let([new_entry \in {Entry(n.v, strip(sub_id.v),
                                    strip(IF token_answer.tokens.refresh_token /= <<>>
                                          THEN token_answer.tokens.refresh_token
                                          ELSE refresh_token))} |->
                 Let([at \in {first_with_number(auth.refresh_tokens, n.v)} |->
                 Let([listed \in {IF at /= 0 THEN [auth EXCEPT !.refresh_tokens[at] = new_entry]
                           ELSE [auth EXCEPT !.refresh_tokens = Append(@, new_entry)]} |->
                 Let([switched \in {set_active_user(_save_tokens(listed), JInt(n.v), now, switch_answer)} |->
                 Did(switched.auth, TRUE, <<request>> \o switched.sent)])])])])])])

\* Auth._clear_active_file
_clear_active_file(auth) == [auth EXCEPT !.active_file = 0]

\* Auth.remove_refresh_token
remove_refresh_token(auth, number, now, switch_answer) ==
    Let([n \in {_safe_int(number)} |->
        Let([kept \in {without_number(auth.refresh_tokens, n.v)} |->
        Let([saved \in {_save_tokens([auth EXCEPT !.refresh_tokens = kept])} |->
        Let([dropped \in {[saved EXCEPT !.active_user = NO_USER]} |->
        IF ~n.ok THEN Did(auth, FALSE, <<>>)
        ELSE IF Len(kept) >= Len(auth.refresh_tokens) THEN Did(auth, FALSE, <<>>)
        ELSE IF auth.active_user = NO_USER \/ auth.active_user.number /= n.v
        THEN Did(saved, TRUE, <<>>)
        ELSE IF kept = <<>> THEN Did(_clear_active_file(dropped), TRUE, <<>>)
        ELSE Let([switched \in {set_active_user(dropped, JInt(kept[1].number), now, switch_answer)} |->
                 Did(switched.auth, TRUE, switched.sent)])])])])])

\* Auth._renew_active_token
_renew_active_token(auth, now, answer) ==
    Let([rt \in {auth.active_user.tokens.refresh_token} |->
        Let([request \in {TokenRequest(strip(rt), strip(auth.active_user.subscriber_id))} |->
        Let([new_rt \in {strip(answer.tokens.refresh_token)} |->
        Let([at \in {first_with_number(auth.refresh_tokens, auth.active_user.number)} |->
        Let([renewed \in {[auth EXCEPT !.active_user.tokens = answer.tokens,
                                !.last_refresh_time = now]} |->
        IF api_key = <<>> \/ auth.active_user = NO_USER THEN Did(auth, FALSE, <<>>)
        ELSE IF strip(rt) = <<>> THEN Did(auth, FALSE, <<>>)
        ELSE IF ~answer.ok THEN Did(auth, FALSE, <<request>>)
        ELSE IF new_rt /= <<>> /\ at /= 0
        THEN Did(_save_tokens([renewed EXCEPT !.refresh_tokens[at].refresh_token = new_rt]),
                 TRUE, <<request>>)
        ELSE IF new_rt /= <<>> THEN Did(_save_tokens(renewed), TRUE, <<request>>)
        ELSE Did(renewed, TRUE, <<request>>)])])])])])

\* Auth.get_active_user, lines 396-401: the number of active.number is
\* selected, the first user when that fails
select_pending(auth, now, answers) ==
    IF auth.active_user = NO_USER /\ auth.pending /= JNULL /\ auth.refresh_tokens /= <<>>
    THEN Let([pending \in {set_active_user(auth, auth.pending, now, answers[1])} |->
             Let([first \in {set_active_user(pending.auth, JInt(pending.auth.refresh_tokens[1].number),
                                      now, answers[2])} |->
             Let([chosen \in {IF pending.v THEN pending
                       ELSE Did(first.auth, first.v, pending.sent \o first.sent)} |->
             Did([chosen.auth EXCEPT !.pending = JNULL], chosen.v, chosen.sent)])])])
    ELSE Did(auth, FALSE, <<>>)

\* Auth.get_active_user, lines 404-405
select_first(auth, now, answers) ==
    IF auth.active_user = NO_USER /\ auth.refresh_tokens /= <<>>
    THEN set_active_user(auth, JInt(auth.refresh_tokens[1].number), now, answers[3])
    ELSE Did(auth, FALSE, <<>>)

\* Auth.get_active_user: v is the active user returned, NO_USER for None
get_active_user(auth, now, answers) ==
    Let([pending \in {select_pending(auth, now, answers)} |->
        Let([first \in {select_first(pending.auth, now, answers)} |->
        Let([selected \in {first.auth} |->
        Let([sent \in {pending.sent \o first.sent} |->
        IF selected.active_user = NO_USER THEN Did(selected, NO_USER, sent)
        ELSE IF now - selected.last_refresh_time > _REFRESH_INTERVAL_SECONDS
        THEN Let([renewal \in {_renew_active_token(selected, now, answers[4])} |->
                 Did(renewal.auth, renewal.auth.active_user, sent \o renewal.sent)])
        ELSE Did(selected, selected.active_user, sent)])])])])

\* the Auth object of the state
Self ==
    [refresh_tokens |-> refresh_tokens, active_user |-> active_user,
     last_refresh_time |-> last_refresh_time, pending |-> _pending_active_number,
     token_file |-> token_file, active_file |-> active_file]

Becomes(auth) ==
    /\ refresh_tokens' = auth.refresh_tokens
    /\ active_user' = auth.active_user
    /\ last_refresh_time' = auth.last_refresh_time
    /\ _pending_active_number' = auth.pending
    /\ token_file' = auth.token_file
    /\ active_file' = auth.active_file

\* a method of Auth returns: the call is recorded with the object before it
Answered(op, number, answers, did) ==
    /\ Becomes(did.auth)
    /\ pc' = "done"
    /\ ret' = Outcome(op, FALSE, did.v,
                       [number |-> number, answers |-> answers, before |-> Self,
                        now |-> monotonic])
    /\ http' = did.sent
    /\ UNCHANGED <<codec_vars, earlier, monotonic, fingerprint_vars, runner, decoy_vars>>

Numbers == {811, 812}

NumberInputs == {JInt(n) : n \in Numbers} \cup {JNULL}

R_0 == <<114, 48>>

S_1 == <<115, 49>>

\* get_new_token: None, new tokens, and tokens without a refresh token
TOKENS_NONE == TokenAnswer(FALSE, <<>>, <<>>)

TOKENS_1 == TokenAnswer(TRUE, <<97, 49>>, <<114, 49>>)

TOKENS_2 == TokenAnswer(TRUE, <<97, 50>>, <<>>)

TokenAnswers == {TOKENS_NONE, TOKENS_1, TOKENS_2}

\* the subscriber id of get_profile, ok = FALSE when it returns nothing
ProfileAnswers == {[ok |-> TRUE, v |-> S_1], [ok |-> FALSE, v |-> <<>>]}

AddRefreshToken ==
    \E number \in NumberInputs, refresh_token \in {<<>>, R_0}, token_answer \in TokenAnswers,
       sub_id \in ProfileAnswers, switch_answer \in TokenAnswers :
        /\ pc = "idle"
        /\ Answered("add_refresh_token", number, <<token_answer, switch_answer>>,
                    add_refresh_token(Self, number, refresh_token, monotonic, token_answer,
                                      sub_id, switch_answer))

RemoveRefreshToken ==
    \E number \in NumberInputs, switch_answer \in TokenAnswers :
        /\ pc = "idle"
        /\ Answered("remove_refresh_token", number, <<switch_answer>>,
                    remove_refresh_token(Self, number, monotonic, switch_answer))

SetActiveUser ==
    \E number \in NumberInputs, answer \in TokenAnswers :
        /\ pc = "idle"
        /\ Answered("set_active_user", number, <<answer>>,
                    set_active_user(Self, number, monotonic, answer))

GetActiveUser ==
    \E answers \in [1..4 -> TokenAnswers] :
        /\ pc = "idle"
        /\ Answered("get_active_user", JNULL, answers,
                    get_active_user(Self, monotonic, answers))

Clocks == 0..242

\* time.monotonic() moves on between two calls
Tick ==
    \E seconds \in {120, 121} :
        /\ pc = "idle"
        /\ monotonic + seconds \in Clocks
        /\ monotonic' = monotonic + seconds
        /\ UNCHANGED <<codec_vars, pc, ret, http, earlier, fingerprint_vars, runner, decoy_vars,
                       refresh_tokens,
                       active_user, last_refresh_time, _pending_active_number, token_file,
                       active_file>>

\* an item of refresh-tokens.json
Item(number, refresh_token) ==
    [number |-> number, subscriber_id |-> S_1, subscription_type |-> PREPAID,
     refresh_token |-> refresh_token]

\* token files with distinct numbers; the last holds an item without a number
TokenFiles ==
    {<<>>, <<Item(JInt(811), R_0)>>, <<Item(JInt(811), R_0), Item(JInt(812), R_0)>>,
     <<Item(JInt(812), R_0), Item(JNULL, R_0)>>}

\* Auth.__init__ over the files a run has left: active.number, when there,
\* names a number of the token file
AuthLoaded ==
    /\ token_file \in TokenFiles
    /\ refresh_tokens = cleaned_entries(token_file)
    /\ active_file \in {0} \cup {refresh_tokens[i].number : i \in DOMAIN refresh_tokens}
    /\ active_user = NO_USER
    /\ monotonic = 0
    /\ last_refresh_time = 0
    /\ _pending_active_number = IF active_file = 0 THEN JNULL ELSE JInt(active_file)

\* no account in use
NoAccounts ==
    /\ token_file = <<>>
    /\ refresh_tokens = <<>>
    /\ active_file = 0
    /\ active_user = NO_USER
    /\ monotonic = 0
    /\ last_refresh_time = 0
    /\ _pending_active_number = JNULL

\* ------------------------------------------------------------------------
\* The redeem runner of the menu (custom_loop.show_custom_loop_menu)
\* ------------------------------------------------------------------------

\* custom_loop._safe_int for the text of an input line: the digits of the
\* text, the default when there are none
menu_safe_int(val, default) ==
    Let([digits \in {SelectSeq(strip(val), LAMBDA ch : ch \in DIGITS)} |->
        IF digits = <<>> THEN default ELSE digits_value(digits, 0)])

\* max(1, int(x or 1)), lines 243-244
at_least_one(x) == IF x < 1 THEN 1 ELSE x

\* no run of the menu has begun
NOT_RUNNING ==
    [pc |-> "none", targets |-> 0, max_cycles |-> 0, max_success |-> 0, dry_run |-> FALSE,
     stop_on_fail |-> FALSE, cycle |-> 0, i |-> 0, total_success |-> 0, total_fail |-> 0,
     items |-> 0, redeems |-> 0, capped |-> FALSE, failed_before |-> FALSE]

\* lines 232-259: the limits as entered, and the counters of the run.
\* items and redeems count the calls of get_package and settlement_bounty;
\* capped and failed_before remember an item begun with total_success at
\* max_success, or after a failure with stop_on_fail set.
configured(targets, cycles_in, success_in, dry_run, stop_on_fail) ==
    [NOT_RUNNING EXCEPT !.pc = "cycle", !.targets = targets,
                        !.max_cycles = at_least_one(menu_safe_int(cycles_in, 1)),
                        !.max_success = at_least_one(menu_safe_int(success_in, 3)),
                        !.dry_run = dry_run, !.stop_on_fail = stop_on_fail, !.cycle = 1]

\* lines 262-269: the head of the for loop over the cycles
begin_cycle(r, has_tokens) ==
    IF r.cycle > r.max_cycles \/ ~has_tokens THEN [r EXCEPT !.pc = "done"]
    ELSE [r EXCEPT !.pc = "item", !.i = 1]

\* continue, or the end of the loop body: the next target, or the next cycle
next_item(r) ==
    IF r.i < r.targets THEN [r EXCEPT !.i = @ + 1]
    ELSE [r EXCEPT !.pc = "cycle", !.cycle = @ + 1, !.i = 0]

\* total_fail += 1, and raise StopIteration when stop_on_fail is set
failed_item(r) ==
    IF r.stop_on_fail THEN [r EXCEPT !.total_fail = @ + 1, !.pc = "done"]
    ELSE next_item([r EXCEPT !.total_fail = @ + 1])

\* lines 276-331, the item once it has begun
attempt_item(r, detail, res) ==
    Let([begun \in {[r EXCEPT !.items = @ + 1,
                           !.capped = @ \/ r.total_success >= r.max_success,
                           !.failed_before = @ \/ (r.stop_on_fail /\ r.total_fail > 0)]} |->
        Let([redeemed \in {[begun EXCEPT !.redeems = @ + 1]} |->
        IF detail /= "ok" THEN failed_item(begun)
        ELSE IF r.dry_run THEN next_item(begun)
        ELSE IF res = "SUCCESS" THEN next_item([redeemed EXCEPT !.total_success = @ + 1])
        ELSE failed_item(redeemed)])])

\* a variant that does not look at total_success before an item
run_item_uncapped(r, detail, res) == attempt_item(r, detail, res)

\* lines 271-331: one pass of the loop over the targets.  detail is what
\* get_package gives ("raises", "not_dict", "no_token", "ok"), res what
\* settlement_bounty gives ("SUCCESS", "FAILED", "none", "raises").
run_item(r, detail, res) ==
    IF r.total_success >= r.max_success THEN [r EXCEPT !.pc = "done"]
    ELSE attempt_item(r, detail, res)

MaxTargets == 1..2

CycleInputs == {<<>>, <<48>>, <<50>>, <<45, 51>>}

SuccessInputs == {<<>>, <<49>>, <<50>>}

PackageDetails == {"raises", "not_dict", "no_token", "ok"}

SettlementResults == {"SUCCESS", "FAILED", "none", "raises"}

\* lines 124-259: the menu up to the start of the run; a menu left before
\* that (no tokens, no package, "00") has made no attempt
ShowCustomLoopMenu ==
    \E targets \in {0} \cup MaxTargets, cycles_in \in CycleInputs, success_in \in SuccessInputs,
       dry_run \in BOOLEAN, stop_on_fail \in BOOLEAN :
        /\ runner.pc = "none"
        /\ runner' = IF targets = 0 THEN [NOT_RUNNING EXCEPT !.pc = "done"]
                     ELSE configured(targets, cycles_in, success_in, dry_run, stop_on_fail)
        /\ UNCHANGED <<fingerprint_vars, auth_vars, decoy_vars, codec_vars, pc, ret, http, earlier>>

\* lines 262-269
BeginCycle ==
    \E has_tokens \in BOOLEAN :
        /\ runner.pc = "cycle"
        /\ runner' = begin_cycle(runner, has_tokens)
        /\ UNCHANGED <<fingerprint_vars, auth_vars, decoy_vars, codec_vars, pc, ret, http, earlier>>

\* lines 271-331
RunItem ==
    \E detail \in PackageDetails, res \in SettlementResults :
        /\ runner.pc = "item"
        /\ runner' = run_item(runner, detail, res)
        /\ UNCHANGED <<fingerprint_vars, auth_vars, decoy_vars, codec_vars, pc, ret, http, earlier>>

\* lines 340-341: Ctrl-C during the run
KeyboardInterrupt ==
    /\ runner.pc \in {"cycle", "item"}
    /\ runner' = [runner EXCEPT !.pc = "done"]
    /\ UNCHANGED <<fingerprint_vars, auth_vars, decoy_vars, codec_vars, pc, ret, http, earlier>>

\* ------------------------------------------------------------------------
\* The decoy packages (decoy.DecoyPackage)
\* ------------------------------------------------------------------------

DEFAULT_PREFIX == <<100, 101, 102, 97, 117, 108, 116, 45>>

PRIO_PREFIX == <<112, 114, 105, 111, 45>>

\* None where get_decoy returns a dict
NO_DECOY == [option_code |-> <<>>, price |-> 0, name |-> <<>>, token_confirmation |-> <<>>]

\* a thread outside get_decoy
NOT_IN_DECOY ==
    [pc |-> "none", decoy_type |-> <<>>, user |-> NO_USER, full_key |-> <<>>, tokens |-> NO_TOKENS,
     result |-> NO_DECOY, hit |-> FALSE, v |-> NO_DECOY, active |-> NO_USER]

\* DecoyPackage.__init__
DecoyUnused ==
    /\ current_sub_id = <<>>
    /\ file_prefix = DEFAULT_PREFIX
    /\ cache = {}
    /\ decoy_callers = [t \in Threads |-> NOT_IN_DECOY]

CACHE_TTL_SECONDS == 300

PRIORITAS == <<80, 82, 73, 79, 82, 73, 84, 65, 83>>

PRIO_TYPES == {PRIORITAS, <<80, 82, 73, 79, 72, 89, 66, 82, 73, 68>>, <<71, 79>>}

DECOY_BALANCE == <<98, 97, 108, 97, 110, 99, 101>>

VALID_TYPES == {DECOY_BALANCE, <<113, 114, 105, 115>>, <<113, 114, 105, 115, 48>>}

\* DecoyPackage._is_prio_type
_is_prio_type(sub_type) == upper(strip(sub_type)) \in PRIO_TYPES

\* the DecoyPackage object of the state
Decoy == [current_sub_id |-> current_sub_id, file_prefix |-> file_prefix, cache |-> cache]

\* DecoyPackage._refresh_context, lines 81-95, for the user that
\* get_active_user returned
switched_context(decoy, user) ==
    Let([sub_id_norm \in {strip(user.subscriber_id)} |->
        Let([new_prefix \in {IF _is_prio_type(user.subscription_type) THEN PRIO_PREFIX
                      ELSE DEFAULT_PREFIX} |->
        IF user = NO_USER THEN decoy
        ELSE IF sub_id_norm /= decoy.current_sub_id \/ new_prefix /= decoy.file_prefix
        THEN [current_sub_id |-> sub_id_norm, file_prefix |-> new_prefix, cache |-> {}]
        ELSE decoy])])

\* lines 203-207: the data of the entry under the key, when it has not expired
cached_data(entries, full_key, now_m) ==
    IF \E e \in entries : e.key = full_key /\ now_m < e.expires_at
    THEN [hit |-> TRUE, data |-> (CHOOSE e \in entries : e.key = full_key).data]
    ELSE [hit |-> FALSE, data |-> NO_DECOY]

\* lines 264-268: self.cache[full_key] = {"expires_at": ..., "data": result}
stored_entry(entries, full_key, now_m, result) ==
    {e \in entries : e.key /= full_key}
        \cup {[key |-> full_key, expires_at |-> now_m + CACHE_TTL_SECONDS, data |-> result]}

\* the price in the file decoy-<prefix><type>.json
DecoyPrices == {500}

\* the package detail the server gives for the tokens of an account: the
\* token_confirmation belongs to the account of the access token
token_confirmation_for(tokens) == <<116, 99, 45>> \o tokens.access_token

OPTION_CODE == <<111, 112, 116>>

\* lines 247-261: the result built from the config and the package detail
decoy_result(price, tokens) ==
    [option_code |-> OPTION_CODE, price |-> price, name |-> <<85, 110, 107, 110, 111, 119, 110,
        32, 68, 101, 99, 111, 121>>,
     token_confirmation |-> token_confirmation_for(tokens)]

\* get_new_token for the refresh token of an account
TokensOf(number) == TokenAnswer(TRUE, <<97>> \o str_int(number), R_0)

\* the answers of the server to the token requests of one get_active_user
DecoyAnswers ==
    [i \in 1..4 |-> TokensOf(IF active_user /= NO_USER THEN active_user.number
                             ELSE IF refresh_tokens /= <<>> THEN refresh_tokens[1].number
                             ELSE 0)]

DecoyTypes == {DECOY_BALANCE, <<111, 116, 104, 101, 114>>}

\* a thread takes a step of get_decoy
DecoyStep(t, caller) ==
    /\ decoy_callers' = [decoy_callers EXCEPT ![t] = caller]
    /\ UNCHANGED <<fingerprint_vars, runner, codec_vars, pc, ret, http, earlier, monotonic>>

\* get_decoy, line 193, and _refresh_context, line 80
ReadActiveUser(t) ==
    \E decoy_type \in DecoyTypes :
        LET did == get_active_user(Self, monotonic, DecoyAnswers)
        IN  /\ decoy_callers[t].pc = "none"
            /\ Becomes(did.auth)
            /\ DecoyStep(t, [NOT_IN_DECOY EXCEPT !.pc = "context", !.decoy_type = decoy_type,
                                                 !.user = did.v])
            /\ UNCHANGED <<current_sub_id, file_prefix, cache>>

\* _refresh_context, lines 81-96, and get_decoy, lines 195-197
ApplyContext(t) ==
    LET me == decoy_callers[t]
        decoy == switched_context(Decoy, me.user)
    IN  /\ me.pc = "context"
        /\ current_sub_id' = decoy.current_sub_id
        /\ file_prefix' = decoy.file_prefix
        /\ cache' = decoy.cache
        /\ DecoyStep(t, IF me.decoy_type \in VALID_TYPES THEN [me EXCEPT !.pc = "key"]
                        ELSE [me EXCEPT !.pc = "done", !.active = active_user])
        /\ UNCHANGED auth_vars

\* get_decoy, line 199
ComputeKey(t) ==
    LET me == decoy_callers[t]
    IN  /\ me.pc = "key"
        /\ DecoyStep(t, [me EXCEPT !.pc = "lookup", !.full_key = file_prefix \o me.decoy_type])
        /\ UNCHANGED <<auth_vars, current_sub_id, file_prefix, cache>>

\* get_decoy, lines 202-207
LookInCache(t) ==
    LET me == decoy_callers[t]
        cached == cached_data(cache, me.full_key, monotonic)
    IN  /\ me.pc = "lookup"
        /\ DecoyStep(t, IF cached.hit
                        THEN [me EXCEPT !.pc = "done", !.hit = TRUE, !.v = cached.data,
                                        !.active = active_user]
                        ELSE [me EXCEPT !.pc = "fetch"])
        /\ UNCHANGED <<auth_vars, current_sub_id, file_prefix, cache>>

\* get_decoy, lines 210-261: the config is read, the active tokens are
\* taken and the package detail is fetched with them
FetchDetail(t) ==
    \E readable \in BOOLEAN, price \in DecoyPrices, answered \in BOOLEAN :
        LET me == decoy_callers[t]
            did == get_active_user(Self, monotonic, DecoyAnswers)
        IN  /\ me.pc = "fetch"
            /\ IF ~readable
               THEN /\ DecoyStep(t, [me EXCEPT !.pc = "done", !.active = active_user])
                    /\ UNCHANGED auth_vars
               ELSE /\ Becomes(did.auth)
                    /\ DecoyStep(t, IF api_key = <<>> \/ did.v = NO_USER \/ ~answered
                                    THEN [me EXCEPT !.pc = "done", !.active = did.v]
                                    ELSE [me EXCEPT !.pc = "store", !.tokens = did.v.tokens,
                                                    !.result = decoy_result(price, did.v.tokens)])
            /\ UNCHANGED <<current_sub_id, file_prefix, cache>>

\* get_decoy, lines 264-271
StoreCache(t) ==
    LET me == decoy_callers[t]
    IN  /\ me.pc = "store"
        /\ cache' = stored_entry(cache, me.full_key, monotonic, me.result)
        /\ DecoyStep(t, [me EXCEPT !.pc = "done", !.v = me.result, !.active = active_user])
        /\ UNCHANGED <<auth_vars, current_sub_id, file_prefix>>

\* the caller goes on after get_decoy has returned
DecoyReturned(t) ==
    /\ decoy_callers[t].pc = "done"
    /\ DecoyStep(t, NOT_IN_DECOY)
    /\ UNCHANGED <<auth_vars, current_sub_id, file_prefix, cache>>

\* another thread selects an account: Auth.set_active_user
SwitchActiveUser ==
    \E number \in Numbers :
        LET did == set_active_user(Self, JInt(number), monotonic, TokensOf(number))
        IN  /\ Becomes(did.auth)
            /\ UNCHANGED <<fingerprint_vars, runner, decoy_vars, codec_vars, pc, ret, http,
                           earlier, monotonic>>

\* the services before any of them is used
AtRest ==
    /\ AX_FP_KEY = K_32
    /\ env_MYXL_AX_FP_KEY_STRICT = <<49>>
    /\ files = NO_FILES
    /\ callers = [t \in Threads |-> NOT_CALLING]
    /\ NoAccounts
    /\ runner = NOT_RUNNING
    /\ DecoyUnused

\* ------------------------------------------------------------------------
\* Configurations the process can start in
\* ------------------------------------------------------------------------

SECRET == <<83, 51, 99, 114, 101, 116>>

\* an environment value holding the byte 0x80, as os.getenv decodes it
SECRET_UNENCODABLE == <<83, 56448>>

AX_KEY == <<65, 120, 75, 101, 121>>

AX_KEY_NON_ASCII == <<65, 120, 233>>

API_KEY == <<107>>

KeySettings == {K_A, K_B, K_D, K_24, K_32, K_A_HEX, K_A_B64, K_SHORT, <<>>}

\* values of the environment variable XDATA_KEYS
KeyListSettings == {<<>>, K_A, K_B \o <<44, 32>> \o K_A}

\* contents of the file xdata.keys
KeyFileSettings == {NONE, <<<<35, 32, 114, 101, 116, 105, 114, 101, 100>>, K_A>>}

SecretSettings ==
    {<<SECRET, AX_KEY>>, <<<<>>, AX_KEY>>, <<SECRET_UNENCODABLE, AX_KEY>>, <<SECRET, <<>>>>,
     <<SECRET, AX_KEY_NON_ASCII>>}

\* key rotation set-ups with the signing secrets in place
InitRotation ==
    /\ XDATA_KEY \in KeySettings
    /\ env_XDATA_KEYS \in KeyListSettings
    /\ file_xdata_keys \in KeyFileSettings
    /\ X_API_BASE_SECRET = SECRET
    /\ AX_API_SIG_KEY = AX_KEY
    /\ ENCRYPTED_FIELD_KEY = K_A
    /\ api_key = API_KEY

\* signing-secret set-ups without key rotation
InitSecrets ==
    /\ XDATA_KEY \in {K_A, <<>>}
    /\ env_XDATA_KEYS = <<>>
    /\ file_xdata_keys = NONE
    /\ \E secrets \in SecretSettings :
           /\ X_API_BASE_SECRET = secrets[1]
           /\ AX_API_SIG_KEY = secrets[2]
    /\ ENCRYPTED_FIELD_KEY = K_A
    /\ api_key \in {<<>>, API_KEY}

\* nothing in flight, no call made
Quiet ==
    /\ wire = NO_WIRE
    /\ pc = "idle"
    /\ ret = NO_CALL
    /\ http = <<>>
    /\ earlier = NO_CALL
    /\ AtRest

\* The envelope codec under key rotation
Init == InitRotation /\ Quiet

Next ==
    \/ EncryptAndSign
    \/ EncryptXdata
    \/ PeerEncrypt
    \/ Tamper
    \/ Decrypt
    \/ Finish

Spec == Init /\ [][Next]_vars

\* ------------------------------------------------------------------------
\* Properties of the envelope codec
\* ------------------------------------------------------------------------

Decrypted == pc = "done" /\ ret.op = "decrypt_xdata"

\* the envelope a finished decrypt call was given still has a text xdata and
\* an int-like xtime
WellFormed(w) == w.tamper \in {"none", "retype", "xtime"}

wire_xdata(w) == DictGet(w.body.v, K_XDATA).v

wire_xtime(w) == JInt(_safe_int(DictGet(w.body.v, K_XTIME)).v)

\* the candidate key decrypts the envelope through unpad and UTF-8 decode
Decodes(w, key) == _try_decrypt_with_key(wire_xdata(w), wire_xtime(w), key).ok

\* ... and the plaintext parses as JSON
FullyDecodes(w, key) ==
    Let([pt \in {_try_decrypt_with_key(wire_xdata(w), wire_xtime(w), key)} |->
        pt.ok /\ json_loads(pt.v).ok])

\* the object read from the plaintext a key yields
ObjectUnder(w, key) ==
    Let([parsed \in {json_loads(_try_decrypt_with_key(wire_xdata(w), wire_xtime(w), key).v)} |->
        IF IsDict(parsed.v) THEN parsed.v ELSE EMPTY_DICT])

\* C1: decrypting, with the timestamp of the encryption, the envelope that
\* encrypt_and_sign_xdata produced for a payload returns exactly that payload
C1_RoundTrip ==
    (Decrypted /\ ret.args.by = "client" /\ ret.args.tamper \in {"none", "retype"})
        => (~ret.raised /\ JEq(ret.v, ret.args.payload))

\* a nested, non-ASCII payload has come back from an envelope made under a
\* 32-byte key
C1_Witness ==
    /\ Decrypted
    /\ ret.args.by = "client"
    /\ ret.args.tamper = "none"
    /\ ret.args.payload = P_NESTED
    /\ ~ret.raised
    /\ ret.v = P_NESTED
    /\ XDATA_KEY = K_32

\* the key the envelope was made under is a decrypt candidate, next to
\* another key
OldKeyListed(w) ==
    /\ _key_bytes(w.key).ok
    /\ \E i \in 1..Len(_iter_candidate_keys) : _iter_candidate_keys[i] = _key_bytes(w.key).v
    /\ Len(_iter_candidate_keys) >= 2

\* C2: a payload encrypted under a key that is anywhere in the candidate
\* list, alongside a different key, is recovered by decrypt
C2_KeyRotation ==
    (Decrypted /\ ret.args.tamper = "none" /\ ret.args.payload /= NONE
        /\ OldKeyListed(ret.args))
        => (~ret.raised /\ JEq(ret.v, ret.args.payload))

\* C3: decrypt returns what the first candidate key, in priority order, for
\* which unpad, UTF-8 decode and JSON parse all succeed yields, the primary
\* key being the first candidate
C3_FirstFullSuccess ==
    (Decrypted /\ WellFormed(ret.args))
        => /\ _key_bytes(XDATA_KEY).ok => _iter_candidate_keys[1] = _key_bytes(XDATA_KEY).v
           /\ \A i \in 1..Len(_iter_candidate_keys) :
                  (/\ FullyDecodes(ret.args, _iter_candidate_keys[i])
                   /\ \A j \in 1..(i - 1) : ~FullyDecodes(ret.args, _iter_candidate_keys[j]))
                      => ret.v = ObjectUnder(ret.args, _iter_candidate_keys[i])

\* C7: decrypting an envelope with a timestamp other than the one it was
\* encrypted with returns the empty object and does not raise
C7_TimestampMismatchFails ==
    (Decrypted /\ ret.args.tamper = "xtime") => (~ret.raised /\ ret.v = EMPTY_DICT)

\* the plaintext decrypt_xdata hands to the JSON parser
PlaintextOf(w) == decrypt_xdata(wire_xdata(w), wire_xtime(w))

\* the cases in which decrypt has nothing to return
Undecodable(w) ==
    \/ w.tamper \in {"truncate", "garbage"}
    \/ w.tamper \in {"drop_xdata", "drop_xtime", "xtime_text"}
    \/ /\ WellFormed(w)
       /\ \/ \A i \in 1..Len(_iter_candidate_keys) : ~Decodes(w, _iter_candidate_keys[i])
          \/ ~json_loads(PlaintextOf(w)).ok
          \/ ~IsDict(json_loads(PlaintextOf(w)).v)

\* C8: decrypt does not raise and returns the empty object when the
\* ciphertext is corrupt, when padding or UTF-8 decoding fails under every
\* candidate key, when the plaintext is not JSON or not a JSON object, and
\* when xdata or xtime is missing or xtime is not int-like
C8_FailSoft ==
    (Decrypted /\ Undecodable(ret.args)) => (~ret.raised /\ ret.v = EMPTY_DICT)

\* two candidate keys have both failed on an intact envelope
C8_Witness ==
    /\ Decrypted
    /\ ret.args.tamper = "none"
    /\ Len(_iter_candidate_keys) >= 2
    /\ \A i \in 1..Len(_iter_candidate_keys) : ~Decodes(ret.args, _iter_candidate_keys[i])
    /\ ~ret.raised
    /\ ret.v = EMPTY_DICT

\* C9: with XDATA_KEY missing or not 16, 24 or 32 bytes long, encrypt_xdata
\* returns "" and encrypt_and_sign_xdata returns {}, without raising
C9_InvalidKeySentinel ==
    (pc = "done" /\ ~_key_bytes(XDATA_KEY).ok)
        => /\ ret.op = "encrypt_xdata" => (~ret.raised /\ ret.v = <<>>)
           /\ ret.op = "encrypt_and_sign_xdata" => (~ret.raised /\ ret.v = NO_ENVELOPE)

\* encrypt_and_sign_xdata has returned {} under a 5-byte key
C9_Witness ==
    /\ pc = "done"
    /\ XDATA_KEY = K_SHORT
    /\ ret.op = "encrypt_and_sign_xdata"
    /\ ret.args.payload = P_STATUS
    /\ ~ret.raised
    /\ ret.v = NO_ENVELOPE

\* ------------------------------------------------------------------------
\* app/client/engsel.py: module-level wrappers
\* ------------------------------------------------------------------------

\* _ensure_api_key: the key the singleton client holds afterwards
_ensure_api_key(cfg_api_key, arg_api_key) ==
    IF arg_api_key /= <<>> /\ arg_api_key /= cfg_api_key THEN arg_api_key ELSE cfg_api_key

\* send_api_request
send_api_request(cfg_api_key, arg_api_key, path, payload_dict, id_token, method, xtime, net) ==
    _send_request(_ensure_api_key(cfg_api_key, arg_api_key), path, payload_dict, id_token,
                  method, xtime, net)

K_ID_TOKEN == <<105, 100, 95, 116, 111, 107, 101, 110>>

K_ACCESS_TOKEN == <<97, 99, 99, 101, 115, 115, 95, 116, 111, 107, 101, 110>>

K_IS_ENTERPRISE == <<105, 115, 95, 101, 110, 116, 101, 114, 112, 114, 105, 115, 101>>

K_LANG == <<108, 97, 110, 103>>

JFALSE == JLit("false")

\* tokens.get(key, "")
tokens_get(tokens, k) == IF k \in Keys(tokens.v) THEN DictGet(tokens.v, k) ELSE JStr(<<>>)

\* intercept_page(api_key, tokens, option_code, False)
intercept_page(cfg_api_key, arg_api_key, tokens, option_code, xtime, net) ==
    Let([payload \in {JObj(<< <<K_IS_ENTERPRISE, JFALSE>>, <<K_LANG, JStr(<<101, 110>>)>>,
                           <<<<112, 97, 99, 107, 97, 103, 101, 95, 111, 112, 116, 105, 111,
                                 110, 95, 99, 111, 100, 101>>, option_code>> >>)} |->
        Let([res \in {send_api_request(cfg_api_key, arg_api_key, <<109, 105, 115, 99, 47, 97, 112,
              105, 47, 118, 56, 47, 117, 116, 105, 108, 105, 116, 121, 47, 105, 110, 116, 101,
              114, 99, 101, 112, 116, 45, 112, 97, 103, 101>>,
                                payload, fmt(tokens_get(tokens, K_ID_TOKEN)), POST, xtime, net)} |->
        [res EXCEPT !.v = IF Falsy(res.v) THEN EMPTY_DICT ELSE res.v]])])

\* ------------------------------------------------------------------------
\* app/client/purchase/common.py
\* ------------------------------------------------------------------------

IsStr(x, s) == x.t = "str" /\ x.v = s

\* a or b
py_or(a, b) == IF Falsy(a) THEN b ELSE a

\* standardize_response, as the record {status, data, message}
standardize_response(decrypted_body) ==
    IF IsNone(decrypted_body)
    THEN [status |-> JStr(S_ERROR), data |-> JNULL,
          message |-> JStr(<<78, 111, 32, 114, 101, 115, 112, 111, 110, 115, 101, 32, 47, 32,
                68, 101, 99, 114, 121, 112, 116, 105, 111, 110, 32, 102, 97, 105, 108, 101,
                100>>)]
    ELSE IF IsDict(decrypted_body)
    THEN Let([d \in {decrypted_body} |->
             Let([status \in {IF K_STATUS \in Keys(d.v) THEN DictGet(d.v, K_STATUS)
                       ELSE IF K_DATA \in Keys(d.v) THEN JStr(S_SUCCESS) ELSE JStr(S_ERROR)} |->
             Let([data \in {IF K_DATA \in Keys(d.v) THEN DictGet(d.v, K_DATA)
                     ELSE IF IsStr(status, S_SUCCESS) THEN d ELSE JNULL} |->
             Let([msg \in {py_or(py_or(py_or(dict_get(d, K_MESSAGE), dict_get(d, <<101, 114, 114, 111,
                   114, 95, 109, 115, 103>>)),
                                dict_get(d, <<101, 114, 114, 111, 114>>)), JStr(<<>>))} |->
             [status |-> status, data |-> data, message |-> msg]])])])])
    ELSE [status |-> JStr(S_SUCCESS), data |-> decrypted_body, message |-> JStr(<<>>)]

\* ------------------------------------------------------------------------
\* Outcomes of calls that send requests: value or exception, and the
\* requests sent, in order
\* ------------------------------------------------------------------------

Returns(value, sent) == [raised |-> FALSE, v |-> value, http |-> sent]

Raises(sent) == [raised |-> TRUE, v |-> NONE, http |-> sent]

\* try: ... except Exception: return fallback, keeping the requests sent
\* before the exception
catch(outcome, fallback) == IF outcome.raised THEN Returns(fallback, outcome.http) ELSE outcome

K_TOKEN_PAYMENT == <<116, 111, 107, 101, 110, 95, 112, 97, 121, 109, 101, 110, 116>>

K_TIMESTAMP == <<116, 105, 109, 101, 115, 116, 97, 109, 112>>

K_ITEM_CODE == <<105, 116, 101, 109, 95, 99, 111, 100, 101>>

K_TOKEN_CONFIRMATION == <<116, 111, 107, 101, 110, 95, 99, 111, 110, 102, 105, 114, 109, 97,
      116, 105, 111, 110>>

K_PAYMENT_FOR == <<112, 97, 121, 109, 101, 110, 116, 95, 102, 111, 114>>

K_ITEMS == <<105, 116, 101, 109, 115>>

\* item.get(key, "")
item_get(item, k) == IF k \in Keys(item.v) THEN DictGet(item.v, k) ELSE JStr(<<>>)

\* "payments/api/v8/payment-methods-option"
PATH_OPTIONS ==
    <<112, 97, 121, 109, 101, 110, 116, 115, 47, 97, 112, 105, 47, 118, 56, 47, 112, 97, 121,
      109, 101, 110, 116, 45, 109, 101, 116, 104, 111, 100, 115, 45, 111, 112, 116, 105, 111,
      110>>

\* BalancePurchaseClient._fetch_payment_options.  QrisPurchaseClient's copy has no
\* try block; the two agree on tokens that hold an id_token.
_fetch_payment_options(cfg_api_key, arg_api_key, tokens, target_code, token_conf, xtime, net) ==
    IF K_ID_TOKEN \notin Keys(tokens.v) THEN Returns(JNULL, <<>>)
    ELSE Let([payload \in {JObj(<< <<<<112, 97, 121, 109, 101, 110, 116, 95, 116, 121, 112, 101>>,
                   JStr(<<80, 85, 82, 67, 72, 65, 83, 69>>)>>, <<K_IS_ENTERPRISE, JFALSE>>,
                                <<<<112, 97, 121, 109, 101, 110, 116, 95, 116, 97, 114, 103, 101,
                                      116>>, target_code>>, <<K_LANG, JStr(<<101, 110>>)>>,
                                <<<<105, 115, 95, 114, 101, 102, 101, 114, 114, 97, 108>>,
                                      JFALSE>>, <<K_TOKEN_CONFIRMATION, token_conf>> >>)} |->
             Let([res \in {send_api_request(cfg_api_key, arg_api_key,
                                     PATH_OPTIONS, payload,
                                     fmt(DictGet(tokens.v, K_ID_TOKEN)), POST, xtime, net)} |->
             Let([normalized \in {standardize_response(res.v)} |->
             IF IsStr(normalized.status, S_SUCCESS) THEN Returns(normalized.data, res.http)
             ELSE Returns(JNULL, res.http)])])])

\* ";".join([i["item_code"] for i in items]); ok = FALSE is a KeyError
payment_targets_of(items) ==
    IF \E i \in 1..Len(items.v) : K_ITEM_CODE \notin Keys(items.v[i].v)
    THEN [ok |-> FALSE, v |-> <<>>]
    ELSE [ok |-> TRUE, v |-> join_semi([i \in 1..Len(items.v) |-> fmt(DictGet(items.v[i].v,
          K_ITEM_CODE))])]

\* the request a purchase or redeem client posts
settlement_request(path, id_token, x_sig, sig_time_sec, encrypted_body) ==
    [method |-> POST, path |-> path,
     x_hv |-> <<118, 51>>,
     x_signature_time |-> sig_time_sec,
     x_signature |-> x_sig,
     authorization |-> <<66, 101, 97, 114, 101, 114, 32>> \o id_token,
     body |-> encrypted_body,
     envelope |-> encrypted_body]

\* ------------------------------------------------------------------------
\* app/client/purchase/balance.py
\* Payload literals keep the fields that carry an argument of the call; the
\* remaining fields are constant ASCII text, numbers and booleans.
\* ------------------------------------------------------------------------

PATH_SETTLEMENT == <<112, 97, 121, 109, 101, 110, 116, 115, 47, 97, 112, 105, 47, 118, 56, 47,
      115, 101, 116, 116, 108, 101, 109, 101, 110, 116, 45, 109, 117, 108, 116, 105, 112, 97,
      121, 109, 101, 110, 116>>

\* items[-1].get("item_price", 0) if items else 0
last_item_price(items) ==
    IF items.v = <<>> THEN JInt(0)
    ELSE IF <<105, 116, 101, 109, 95, 112, 114, 105, 99, 101>> \in Keys(items.v[Len(items.v)].v)
    THEN DictGet(items.v[Len(items.v)].v, <<105, 116, 101, 109, 95, 112, 114, 105, 99,
          101>>) ELSE JInt(0)

\* BalancePurchaseClient._build_settlement_payload
balance_settlement_payload(amount, items, payment_for, token_payment, access_token, timestamp_override) ==
    JObj(<< <<K_TOKEN_PAYMENT, token_payment>>,
            <<<<112, 97, 121, 109, 101, 110, 116, 95, 109, 101, 116, 104, 111, 100>>,
                  JStr(<<66, 65, 76, 65, 78, 67, 69>>)>>,
            <<K_TIMESTAMP, timestamp_override>>,
            <<K_PAYMENT_FOR, JStr(payment_for)>>,
            <<<<116, 111, 112, 117, 112, 95, 110, 117, 109, 98, 101, 114>>, JStr(<<>>)>>,
            <<<<115, 116, 97, 103, 101, 95, 116, 111, 107, 101, 110>>, JStr(<<>>)>>,
            <<K_ACCESS_TOKEN, access_token>>,
            <<<<97, 100, 100, 105, 116, 105, 111, 110, 97, 108, 95, 100, 97, 116, 97>>,
                  JObj(<< <<<<111, 114, 105, 103, 105, 110, 97, 108, 95, 112, 114, 105, 99,
                  101>>, last_item_price(items)>> >>)>>,
            <<<<116, 111, 116, 97, 108, 95, 97, 109, 111, 117, 110, 116>>, JInt(amount)>>,
            <<K_ITEMS, items>> >>)

\* what execute_purchase does with the answer to the settlement request
balance_result(net, sent) ==
    IF ~IsResponse(net) THEN Raises(sent)
    ELSE IF net.status >= 500
    THEN Returns(JObj(<< <<K_STATUS, JStr(S_ERROR)>>, <<K_MESSAGE, JStr(<<83, 101, 114, 118,
          101, 114, 32, 69, 114, 114, 111, 114>>)>>,
                         <<K_RAW, JStr(net.text)>> >>), sent)
    ELSE IF ~net.is_json
    THEN Returns(JObj(<< <<K_STATUS, JStr(S_ERROR)>>,
                         <<K_MESSAGE, JStr(<<68, 101, 99, 114, 121, 112, 116, 105, 111, 110,
                               32, 70, 97, 105, 108, 101, 100>>)>>,
                         <<K_RAW, JStr(net.text)>> >>), sent)
    ELSE Returns(client_decrypt_xdata(net.json).v, sent)

\* steps 3 to 6 of execute_purchase, after the payment options arrived
balance_settle(tokens, items, payment_for, amount_to_pay, payment_res, xtime, net, sent) ==
    IF ~IsDict(payment_res) THEN Raises(sent)
    ELSE Let([token_payment \in {dict_get(payment_res, K_TOKEN_PAYMENT)} |->
             Let([ts_to_sign \in {dict_get(payment_res, K_TIMESTAMP)} |->
             IF Falsy(token_payment) \/ Falsy(ts_to_sign) THEN Returns(JNULL, sent)
             ELSE IF K_ACCESS_TOKEN \notin Keys(tokens.v) THEN Raises(sent)
             ELSE Let([access_token \in {DictGet(tokens.v, K_ACCESS_TOKEN)} |->
                      Let([id_token \in {fmt(DictGet(tokens.v, K_ID_TOKEN))} |->
                      Let([payload \in {balance_settlement_payload(amount_to_pay, items, payment_for,
                                                            token_payment, access_token,
                                                            ts_to_sign)} |->
                      Let([enc \in {encryptsign_xdata(POST, PATH_SETTLEMENT, id_token, payload, xtime)} |->
                      IF enc.raised THEN Returns(JNULL, sent)
                      ELSE IF enc.v.empty THEN Raises(sent)
                      ELSE Let([encrypted_data \in {enc.v} |->
                               Let([sig_time_sec \in {
                                   sig_time_of(_safe_int(dict_get(encrypted_data.encrypted_body,
                                                                  K_XTIME)).v)} |->
                               Let([payment_targets \in {payment_targets_of(items)} |->
                               IF ~payment_targets.ok THEN Raises(sent)
                               ELSE Let([x_sig \in {
                                            make_x_signature_payment(fmt(access_token),
                                                ts_to_sign, payment_targets.v,
                                                fmt(token_payment),
                                                <<66, 65, 76, 65, 78, 67, 69>>, payment_for,
                                                PATH_SETTLEMENT)} |->
                                        Let([request \in {
                                            settlement_request(PATH_SETTLEMENT, id_token, x_sig,
                                                str_int(sig_time_sec),
                                                encrypted_data.encrypted_body)} |->
                                        balance_result(net, sent \o <<request>>)])])])])])])])])])])])

\* the try block of BalancePurchaseClient.execute_purchase; the client was
\* built with arg_api_key
execute_purchase_try(cfg_api_key, arg_api_key, tokens, items, payment_for, amount_to_pay, token_confirmation_idx, xtime, net_intercept, net_options, net_settle) ==
    IF items.v = <<>> THEN Returns(JNULL, <<>>)
    ELSE IF token_confirmation_idx >= Len(items.v) THEN Returns(JNULL, <<>>)
    ELSE Let([item \in {items.v[token_confirmation_idx + 1]} |->
             Let([icpt \in {intercept_page(cfg_api_key, arg_api_key, tokens,
                                    item_get(items.v[1], K_ITEM_CODE), xtime, net_intercept)} |->
             Let([fetch \in {_fetch_payment_options(_ensure_api_key(cfg_api_key, arg_api_key),
                                             arg_api_key, tokens, item_get(item, K_ITEM_CODE),
                                             item_get(item, K_TOKEN_CONFIRMATION), xtime,
                                             net_options)} |->
             Let([sent \in {icpt.http \o fetch.http} |->
             IF Falsy(fetch.v) THEN Returns(JNULL, sent)
             ELSE balance_settle(tokens, items, payment_for, amount_to_pay, fetch.v, xtime,
                                 net_settle, sent)])])])])

\* BalancePurchaseClient.execute_purchase: the outer except returns None
execute_purchase(cfg_api_key, arg_api_key, tokens, items, payment_for, amount_to_pay, token_confirmation_idx, xtime, net_intercept, net_options, net_settle) ==
    catch(execute_purchase_try(cfg_api_key, arg_api_key, tokens, items, payment_for,
                               amount_to_pay, token_confirmation_idx, xtime, net_intercept,
                               net_options, net_settle), JNULL)

\* ------------------------------------------------------------------------
\* app/client/purchase/qris.py
\* ------------------------------------------------------------------------

PATH_QRIS == <<112, 97, 121, 109, 101, 110, 116, 115, 47, 97, 112, 105, 47, 118, 56, 47, 115,
      101, 116, 116, 108, 101, 109, 101, 110, 116, 45, 109, 117, 108, 116, 105, 112, 97, 121,
      109, 101, 110, 116, 47, 113, 114, 105, 115>>

\* QrisPurchaseClient._build_settlement_payload followed by payload["timestamp"] = ts_to_sign
qris_settlement_payload(amount, items, payment_for, token_payment, access_token, ts_to_sign) ==
    JObj(<< <<K_PAYMENT_FOR, JStr(payment_for)>>,
            <<<<116, 111, 112, 117, 112, 95, 110, 117, 109, 98, 101, 114>>, JStr(<<>>)>>,
            <<<<115, 116, 97, 103, 101, 95, 116, 111, 107, 101, 110>>, JStr(<<>>)>>,
            <<K_ACCESS_TOKEN, access_token>>,
            <<<<97, 100, 100, 105, 116, 105, 111, 110, 97, 108, 95, 100, 97, 116, 97>>,
              JObj(<< <<<<111, 114, 105, 103, 105, 110, 97, 108, 95, 112, 114, 105, 99, 101>>,
                    DictGet(items.v[1].v, <<105, 116, 101, 109, 95, 112, 114, 105, 99,
                    101>>)>> >>)>>,
            <<<<116, 111, 116, 97, 108, 95, 97, 109, 111, 117, 110, 116>>, JInt(amount)>>,
            <<K_ITEMS, items>>,
            <<<<118, 101, 114, 105, 102, 105, 99, 97, 116, 105, 111, 110, 95, 116, 111, 107,
                  101, 110>>, token_payment>>,
            <<<<112, 97, 121, 109, 101, 110, 116, 95, 109, 101, 116, 104, 111, 100>>,
                  JStr(<<81, 82, 73, 83>>)>>,
            <<K_TIMESTAMP, ts_to_sign>> >>)

\* the try block around the QRIS settlement request: every exception is None
qris_result(net, sent) ==
    IF ~IsResponse(net) \/ ~net.is_json THEN Returns(JNULL, sent)
    ELSE Let([decrypted \in {client_decrypt_xdata(net.json).v} |->
             Let([result \in {standardize_response(decrypted)} |->
             IF ~IsStr(result.status, S_SUCCESS) THEN Returns(JNULL, sent)
             ELSE IF ~IsDict(result.data) THEN Returns(JNULL, sent)
             ELSE Returns(dict_get(result.data, <<116, 114, 97, 110, 115, 97, 99, 116, 105, 111,
                   110, 95, 99, 111, 100, 101>>), sent)])])

\* steps 3 to 5 of execute_transaction
qris_settle(tokens, items, payment_for, amount_to_pay, payment_res, xtime, net, sent) ==
    IF ~IsDict(payment_res) THEN Raises(sent)
    ELSE IF K_ACCESS_TOKEN \notin Keys(tokens.v) THEN Raises(sent)
    ELSE IF <<105, 116, 101, 109, 95, 112, 114, 105, 99, 101>> \notin Keys(items.v[1].v)
    THEN Raises(sent)
    ELSE Let([token_payment \in {dict_get(payment_res, K_TOKEN_PAYMENT)} |->
             Let([ts_to_sign \in {dict_get(payment_res, K_TIMESTAMP)} |->
             Let([access_token \in {DictGet(tokens.v, K_ACCESS_TOKEN)} |->
             Let([id_token \in {fmt(DictGet(tokens.v, K_ID_TOKEN))} |->
             Let([payload \in {qris_settlement_payload(amount_to_pay, items, payment_for,
                                                token_payment, access_token, ts_to_sign)} |->
             Let([enc \in {encryptsign_xdata(POST, PATH_QRIS, id_token, payload, xtime)} |->
             IF enc.raised THEN Raises(sent)
             ELSE IF enc.v.empty THEN Raises(sent)
             ELSE Let([encrypted_data \in {enc.v} |->
                      Let([sig_time_sec \in {
                          sig_time_of(_safe_int(dict_get(encrypted_data.encrypted_body,
                                                         K_XTIME)).v)} |->
                      Let([payment_targets \in {payment_targets_of(items)} |->
                      IF ~payment_targets.ok THEN Raises(sent)
                      ELSE Let([x_sig \in {
                                   make_x_signature_payment(fmt(access_token), ts_to_sign,
                                       payment_targets.v, fmt(token_payment),
                                       <<81, 82, 73, 83>>, payment_for, PATH_QRIS)} |->
                               Let([request \in {
                                   settlement_request(PATH_QRIS, id_token, x_sig,
                                       str_int(sig_time_sec), encrypted_data.encrypted_body)} |->
                               qris_result(net, sent \o <<request>>)])])])])])])])])])])])

\* QrisPurchaseClient.execute_transaction
execute_transaction(cfg_api_key, arg_api_key, tokens, items, payment_for, amount_to_pay, token_confirmation_idx, xtime, net_intercept, net_options, net_settle) ==
    IF items.v = <<>> THEN Returns(JNULL, <<>>)
    ELSE IF token_confirmation_idx >= Len(items.v) THEN Raises(<<>>)
    ELSE Let([item \in {items.v[token_confirmation_idx + 1]} |->
             Let([icpt \in {intercept_page(cfg_api_key, arg_api_key, tokens,
                                    item_get(items.v[1], K_ITEM_CODE), xtime, net_intercept)} |->
             Let([fetch \in {_fetch_payment_options(_ensure_api_key(cfg_api_key, arg_api_key),
                                             arg_api_key, tokens, item_get(item, K_ITEM_CODE),
                                             item_get(item, K_TOKEN_CONFIRMATION), xtime,
                                             net_options)} |->
             Let([sent \in {icpt.http \o fetch.http} |->
             IF Falsy(fetch.v) THEN Returns(JNULL, sent)
             ELSE qris_settle(tokens, items, payment_for, amount_to_pay, fetch.v, xtime,
                              net_settle, sent)])])])])

\* ------------------------------------------------------------------------
\* app/client/purchase/redeem.py
\* ------------------------------------------------------------------------

PATH_LOYALTY == <<103, 97, 109, 105, 102, 105, 99, 97, 116, 105, 111, 110, 47, 97, 112, 105,
      47, 118, 56, 47, 108, 111, 121, 97, 108, 116, 105, 101, 115, 47, 116, 105, 101, 114, 105,
      110, 103, 47, 101, 120, 99, 104, 97, 110, 103, 101>>

PATH_ALLOTMENT == <<103, 97, 109, 105, 102, 105, 99, 97, 116, 105, 111, 110, 47, 97, 112, 105,
      47, 118, 56, 47, 108, 111, 121, 97, 108, 116, 105, 101, 115, 47, 116, 105, 101, 114, 105,
      110, 103, 47, 98, 111, 117, 110, 116, 105, 101, 115, 45, 97, 108, 108, 111, 116, 109,
      101, 110, 116>>

\* what _send_encrypted_request does with the answer to its request
redeem_result(net, sent) ==
    IF ~IsResponse(net) THEN Returns(JNULL, sent)
    ELSE IF ~net.is_json
    THEN Returns(JObj(<< <<K_STATUS, JStr(S_ERROR)>>,
                         <<K_MESSAGE, JStr(<<68, 101, 99, 114, 121, 112, 116, 105, 111, 110,
                               32, 102, 97, 105, 108, 101, 100>>)>>,
                         <<K_RAW, JStr(net.text)>> >>), sent)
    ELSE Returns(client_decrypt_xdata(net.json).v, sent)

\* RedeemClient._send_encrypted_request; x_sig is signature_func(**signature_kwargs)
\* with sig_time_sec set to ts_to_sign
_send_encrypted_request(path, payload, tokens, x_sig, xtime, net) ==
    IF K_ID_TOKEN \notin Keys(tokens.v) THEN Returns(JNULL, <<>>)
    ELSE Let([id_token \in {fmt(DictGet(tokens.v, K_ID_TOKEN))} |->
             Let([enc \in {encryptsign_xdata(POST, path, id_token, payload, xtime)} |->
             IF enc.raised THEN Returns(JNULL, <<>>)
             ELSE IF enc.v.empty THEN Raises(<<>>)
             ELSE Let([encrypted_data \in {enc.v} |->
                      Let([sig_time_sec \in {
                          sig_time_of(_safe_int(dict_get(encrypted_data.encrypted_body,
                                                         K_XTIME)).v)} |->
                      Let([request \in {settlement_request(path, id_token, x_sig,
                                                    str_int(sig_time_sec),
                                                    encrypted_data.encrypted_body)} |->
                      redeem_result(net, <<request>>)])])])])])

\* RedeemClient.settlement_bounty
settlement_bounty(tokens, token_confirmation, ts_to_sign, payment_target, price, xtime, net) ==
    IF K_ACCESS_TOKEN \notin Keys(tokens.v) THEN Raises(<<>>)
    ELSE Let([access_token \in {DictGet(tokens.v, K_ACCESS_TOKEN)} |->
             Let([payload \in {
                 JObj(<< <<<<112, 97, 121, 109, 101, 110, 116, 95, 109, 101, 116, 104, 111,
                               100>>, JStr(<<66, 65, 76, 65, 78, 67, 69>>)>>,
                         <<K_TIMESTAMP, ts_to_sign>>,
                         <<K_PAYMENT_FOR, JStr(<<82, 69, 68, 69, 69, 77, 95, 86, 79, 85, 67,
                               72, 69, 82>>)>>,
                         <<K_TOKEN_CONFIRMATION, JStr(token_confirmation)>>,
                         <<K_ACCESS_TOKEN, access_token>>,
                         <<K_ITEMS, JArr(<<JObj(<< <<K_ITEM_CODE, JStr(payment_target)>>,
                                                   <<<<105, 116, 101, 109, 95, 112, 114, 105,
                                                         99, 101>>, JInt(price)>>,
                                                   <<<<105, 116, 101, 109, 95, 110, 97, 109,
                                                         101>>, JStr(<<>>)>> >>)>>)>> >>)} |->
             Let([x_sig \in {make_x_signature_bounty(fmt(access_token), ts_to_sign, payment_target,
                                              token_confirmation)} |->
             _send_encrypted_request(PATH_BOUNTY, payload, tokens, x_sig, xtime, net)])])])

\* RedeemClient.settlement_loyalty
settlement_loyalty(tokens, token_confirmation, ts_to_sign, payment_target, price, xtime, net) ==
    Let([payload \in {
            JObj(<< <<K_ITEM_CODE, JStr(payment_target)>>,
                    <<<<97, 109, 111, 117, 110, 116>>, JInt(0)>>,
                    <<<<112, 97, 114, 116, 110, 101, 114>>, JStr(<<>>)>>,
                    <<K_IS_ENTERPRISE, JFALSE>>,
                    <<<<105, 116, 101, 109, 95, 110, 97, 109, 101>>, JStr(<<>>)>>,
                    <<K_LANG, JStr(<<101, 110>>)>>,
                    <<<<112, 111, 105, 110, 116, 115>>, JInt(price)>>,
                    <<K_TIMESTAMP, ts_to_sign>>,
                    <<K_TOKEN_CONFIRMATION, JStr(token_confirmation)>> >>)} |->
        Let([x_sig \in {make_x_signature_loyalty(ts_to_sign, payment_target, token_confirmation,
                                          PATH_LOYALTY)} |->
        _send_encrypted_request(PATH_LOYALTY, payload, tokens, x_sig, xtime, net)])])

\* RedeemClient.bounty_allotment; the payload's timestamp is the clock in seconds
bounty_allotment(tokens, ts_to_sign, destination_msisdn, item_name, item_code, token_confirmation, xtime, net) ==
    Let([payload \in {
            JObj(<< <<<<100, 101, 115, 116, 105, 110, 97, 116, 105, 111, 110, 95, 109, 115,
                  105, 115, 100, 110>>, JStr(destination_msisdn)>>,
                    <<K_ITEM_CODE, JStr(item_code)>>,
                    <<K_IS_ENTERPRISE, JFALSE>>,
                    <<<<105, 116, 101, 109, 95, 110, 97, 109, 101>>, JStr(item_name)>>,
                    <<K_LANG, JStr(<<101, 110>>)>>,
                    <<K_TIMESTAMP, JInt(sig_time_of(xtime))>>,
                    <<K_TOKEN_CONFIRMATION, JStr(token_confirmation)>> >>)} |->
        Let([x_sig \in {make_x_signature_bounty_allotment(ts_to_sign, item_code, token_confirmation,
                                                   PATH_ALLOTMENT, destination_msisdn)} |->
        _send_encrypted_request(PATH_ALLOTMENT, payload, tokens, x_sig, xtime, net)])])

\* ------------------------------------------------------------------------
\* app/client/ciam.py
\* ------------------------------------------------------------------------

PATH_OTP == <<47, 114, 101, 97, 108, 109, 115, 47, 120, 108, 45, 99, 105, 97, 109, 47, 112,
      114, 111, 116, 111, 99, 111, 108, 47, 111, 112, 101, 110, 105, 100, 45, 99, 111, 110,
      110, 101, 99, 116, 47, 116, 111, 107, 101, 110>>

\* CiamClient.validate_contact
validate_contact(contact) ==
    /\ contact /= <<>>
    /\ StartsWith(contact, <<54, 50, 56>>)
    /\ 10 <= Len(contact) /\ Len(contact) <= 14
    /\ \A i \in 1..Len(contact) : contact[i] \in DIGITS

\* CiamClient._parse_json: None when the body is not JSON
_parse_json(net) ==
    IF ~net.is_json THEN JNULL
    ELSE IF IsDict(net.json) THEN dict_setdefault(net.json, <<95, 115, 116, 97, 116, 117, 115,
          95, 99, 111, 100, 101>>, JInt(net.status))
    ELSE net.json

\* "error" not in resp
no_error_in(resp) ==
    CASE resp.t = "obj" -> <<101, 114, 114, 111, 114>> \notin Keys(resp.v)
      [] resp.t = "arr" -> \A i \in 1..Len(resp.v) : ~IsStr(resp.v[i], <<101, 114, 114, 111,
            114>>)
      [] OTHER -> TRUE

\* CiamClient.submit_otp; ts_sign is the clock formatted by ts_gmt7_without_colon
submit_otp(contact_type, contact, code, ts_sign, net) ==
    Let([encoded \in {encode_utf8(contact)} |->
        Let([final_contact \in {IF contact_type = <<68, 69, 86, 73, 67, 69, 73,
              68>> THEN b64encode(encoded.v) ELSE contact} |->
        Let([sig \in {make_ax_api_signature(ts_sign, final_contact, code, contact_type)} |->
        Let([request \in {[method |-> POST, path |-> PATH_OTP, ax_api_signature |-> sig,
                    data |-> <<99, 111, 110, 116, 97, 99, 116, 84, 121, 112, 101,
                          61>> \o contact_type \o <<38, 99, 111, 100, 101, 61>> \o code
                             \o <<38, 103, 114, 97, 110, 116, 95, 116, 121, 112, 101, 61, 112,
                                   97, 115, 115, 119, 111, 114, 100, 38, 99, 111, 110, 116, 97,
                                   99, 116, 61>> \o final_contact
                             \o <<38, 115, 99, 111, 112, 101, 61, 111, 112, 101, 110, 105,
                                   100>>]} |->
        Let([resp \in {IF IsResponse(net) THEN _parse_json(net) ELSE JNULL} |->
        IF contact_type = <<83, 77, 83>> /\ ~validate_contact(contact) THEN Returns(JNULL, <<>>)
        ELSE IF contact_type = <<68, 69, 86, 73, 67, 69, 73,
              68>> /\ ~encoded.ok THEN Raises(<<>>)
        ELSE IF sig = <<>> THEN Returns(JNULL, <<>>)
        ELSE IF ~Falsy(resp) /\ no_error_in(resp) THEN Returns(resp, <<request>>)
        ELSE Returns(JNULL, <<request>>)])])])])])

\* ------------------------------------------------------------------------
\* Inputs of the client calls
\* ------------------------------------------------------------------------

LONE_SURROGATE == <<55296>>

TOKENS_OK == JObj(<< <<K_ID_TOKEN, JStr(<<84>>)>>, <<K_ACCESS_TOKEN, JStr(<<65>>)>> >>)

\* an access token that cannot be encoded as UTF-8
TOKENS_BAD_ACCESS ==
    JObj(<< <<K_ID_TOKEN, JStr(<<84>>)>>, <<K_ACCESS_TOKEN, JStr(LONE_SURROGATE)>> >>)

ClientTokens == {TOKENS_OK, TOKENS_BAD_ACCESS}

NET_TIMEOUT ==
    [kind |-> "timeout", status |-> 0, is_json |-> FALSE, json |-> JNULL, text |-> <<>>,
     retry_after |-> NO_HEADER]

NET_ERROR ==
    [kind |-> "neterr", status |-> 0, is_json |-> FALSE, json |-> JNULL,
     text |-> <<99, 111, 110, 110, 101, 99, 116, 105, 111, 110, 32, 114, 101, 102, 117, 115,
           101, 100>>, retry_after |-> NO_HEADER]

\* an answer with a JSON body
json_response(status, value) ==
    [kind |-> "response", status |-> status, is_json |-> TRUE, json |-> value,
     text |-> _safe_json_dumps(value), retry_after |-> NO_HEADER]

NET_OK_PLAIN == json_response(200, P_STATUS)

P_TRANSACTION ==
    JObj(<< <<K_STATUS, JStr(S_SUCCESS)>>,
            <<K_DATA, JObj(<< <<<<99>>, JStr(<<84, 88>>)>> >>)>> >>)

\* the server answers with an envelope made under K_A
NET_OK_SEALED ==
    json_response(200, envelope(encrypt_with(K_A,
          encode_utf8(_safe_json_dumps(P_TRANSACTION)).v,
                                             0), 0))

NET_401_HTML ==
    [kind |-> "response", status |-> 401, is_json |-> FALSE, json |-> JNULL,
     text |-> <<60, 104, 116, 109, 108, 62>>, retry_after |-> NO_HEADER]

NET_429 ==
    [json_response(429, EMPTY_DICT) EXCEPT !.retry_after = [present |-> TRUE, v |-> <<53>>]]

NET_500 == json_response(500, JArr(<<JInt(1)>>))

\* the server answers with an envelope whose xdata ("AAAA") is no ciphertext
NET_OK_UNREADABLE == json_response(200, envelope(<<65, 65, 65, 65>>, 0))

GenericAnswers ==
    <<NET_TIMEOUT, NET_ERROR, NET_OK_PLAIN, NET_OK_SEALED, NET_401_HTML, NET_429, NET_500,
      NET_OK_UNREADABLE>>

SettleAnswers == <<NET_TIMEOUT, NET_OK_SEALED, NET_401_HTML, NET_500>>

\* the second of a server timestamp
SERVER_TS == EPOCH_SEC + 123

options_answer(data) ==
    json_response(200, JObj(<< <<K_STATUS, JStr(S_SUCCESS)>>, <<K_DATA, data>> >>))

OPT_OK ==
    options_answer(JObj(<< <<K_TOKEN_PAYMENT, JStr(<<116, 112>>)>>, <<K_TIMESTAMP,
          JInt(SERVER_TS)>> >>))

OPT_NO_TS == options_answer(JObj(<< <<K_TOKEN_PAYMENT, JStr(<<116, 112>>)>> >>))

OPT_BAD_TS ==
    options_answer(JObj(<< <<K_TOKEN_PAYMENT, JStr(<<116, 112>>)>>,
                           <<K_TIMESTAMP, JStr(LONE_SURROGATE)>> >>))

OPT_LIST == options_answer(JArr(<<JInt(1)>>))

OptionsAnswers == <<OPT_OK, OPT_NO_TS, OPT_BAD_TS, OPT_LIST, NET_ERROR>>

InterceptAnswers == <<NET_TIMEOUT, NET_OK_PLAIN>>

ITEM == JObj(<< <<K_ITEM_CODE, JStr(<<80, 75, 71>>)>>, <<<<105, 116, 101, 109, 95, 112, 114,
      105, 99, 101>>, JInt(100)>>,
                <<K_TOKEN_CONFIRMATION, JStr(<<116, 99>>)>> >>)

ItemLists == {JArr(<<>>), JArr(<<ITEM>>)}

\* ts_to_sign as the menus pass it on from a package's "timestamp"
SignTimes == <<JInt(SERVER_TS), JStr(LONE_SURROGATE), JNULL>>

TS_GMT7 == <<50, 48, 50, 51, 45, 49, 49, 45, 49, 53, 84, 48, 53, 58, 49, 51, 58, 50, 48, 46,
      48, 48, 48, 43, 48, 55, 48, 48>>

OTP_ERROR == json_response(400, JObj(<< <<<<101, 114, 114, 111, 114>>, JStr(<<105, 110, 118,
      97, 108, 105, 100, 95, 103, 114, 97, 110, 116>>)>> >>))

OtpAnswers == <<NET_TIMEOUT, NET_OK_PLAIN, OTP_ERROR, NET_401_HTML>>

Contacts == {<<54, 50, 56, 49, 50, 51, 52, 53, 54, 55, 56, 57, 48>>, <<120>>, LONE_SURROGATE}

\* a call that may send requests returns or raises
Finished(op, args, outcome) ==
    /\ pc' = "done"
    /\ ret' = Outcome(op, outcome.raised, outcome.v, args)
    /\ http' = outcome.http

\* ------------------------------------------------------------------------
\* Client calls
\* ------------------------------------------------------------------------

\* engsel.send_api_request
SendApiRequest ==
    \E arg_api_key \in {<<>>, API_KEY}, payload \in {P_AB, P_SURROGATE}, id_token \in {<<>>,
       <<84>>, LONE_SURROGATE}, method \in {POST, <<103, 101, 116>>}, t \in Times,
       net_at \in DOMAIN GenericAnswers :
        LET net == GenericAnswers[net_at]
        IN
        /\ pc = "idle"
        /\ Finished("send_api_request",
                    [path |-> PATH_GENERIC, payload |-> payload, id_token |-> id_token,
                     method |-> method, t |-> t, net |-> net],
                    send_api_request(api_key, arg_api_key, PATH_GENERIC, payload, id_token,
                                     method, t, net))
        /\ api_key' = _ensure_api_key(api_key, arg_api_key)
        /\ UNCHANGED <<service_vars, XDATA_KEY, X_API_BASE_SECRET, AX_API_SIG_KEY, ENCRYPTED_FIELD_KEY,
                       env_XDATA_KEYS, earlier, file_xdata_keys, wire>>

\* BalancePurchaseClient(API_KEY).execute_purchase
ExecutePurchase ==
    \E tokens \in ClientTokens, items \in ItemLists, idx \in {0, 1}, t \in Times,
       net_intercept_at \in DOMAIN InterceptAnswers,
       net_options_at \in DOMAIN OptionsAnswers, net_settle_at \in DOMAIN SettleAnswers :
        LET net_intercept == InterceptAnswers[net_intercept_at]
            net_options == OptionsAnswers[net_options_at]
            net_settle == SettleAnswers[net_settle_at]
        IN
        /\ pc = "idle"
        /\ Finished("execute_purchase",
                    [tokens |-> tokens, items |-> items, t |-> t, net_options |-> net_options,
                     net |-> net_settle],
                    execute_purchase(api_key, API_KEY, tokens, items, <<66, 85, 89, 95, 80, 65,
                          67, 75, 65, 71, 69>>, 100, idx,
                                     t, net_intercept, net_options, net_settle))
        /\ api_key' = IF items.v = <<>> \/ idx >= Len(items.v) THEN api_key
                      ELSE _ensure_api_key(api_key, API_KEY)
        /\ UNCHANGED <<service_vars, XDATA_KEY, X_API_BASE_SECRET, AX_API_SIG_KEY, ENCRYPTED_FIELD_KEY,
                       env_XDATA_KEYS, earlier, file_xdata_keys, wire>>

\* QrisPurchaseClient(API_KEY).execute_transaction
ExecuteTransaction ==
    \E tokens \in ClientTokens, items \in ItemLists, t \in Times,
       net_intercept_at \in DOMAIN InterceptAnswers,
       net_options_at \in DOMAIN OptionsAnswers, net_settle_at \in DOMAIN SettleAnswers :
        LET net_intercept == InterceptAnswers[net_intercept_at]
            net_options == OptionsAnswers[net_options_at]
            net_settle == SettleAnswers[net_settle_at]
        IN
        /\ pc = "idle"
        /\ Finished("execute_transaction",
                    [tokens |-> tokens, items |-> items, t |-> t, net_options |-> net_options,
                     net |-> net_settle],
                    execute_transaction(api_key, API_KEY, tokens, items, <<66, 85, 89, 95, 80,
                          65, 67, 75, 65, 71, 69>>, 100, 0,
                                        t, net_intercept, net_options, net_settle))
        /\ api_key' = IF items.v = <<>> THEN api_key ELSE _ensure_api_key(api_key, API_KEY)
        /\ UNCHANGED <<service_vars, XDATA_KEY, X_API_BASE_SECRET, AX_API_SIG_KEY, ENCRYPTED_FIELD_KEY,
                       env_XDATA_KEYS, earlier, file_xdata_keys, wire>>

\* RedeemClient.settlement_bounty
SettlementBounty ==
    \E tokens \in ClientTokens, ts_to_sign_at \in DOMAIN SignTimes, t \in Times,
       net_at \in DOMAIN SettleAnswers :
        LET ts_to_sign == SignTimes[ts_to_sign_at]
            net == SettleAnswers[net_at]
        IN
        /\ pc = "idle"
        /\ Finished("settlement_bounty",
                    [tokens |-> tokens, ts_to_sign |-> ts_to_sign, t |-> t, net |-> net],
                    settlement_bounty(tokens, <<116, 99>>, ts_to_sign, <<80, 75, 71>>, 100, t,
                          net))
        /\ UNCHANGED <<service_vars, XDATA_KEY, X_API_BASE_SECRET, AX_API_SIG_KEY, ENCRYPTED_FIELD_KEY,
                       env_XDATA_KEYS, earlier, file_xdata_keys, api_key, wire>>

\* RedeemClient.settlement_loyalty
SettlementLoyalty ==
    \E tokens \in ClientTokens, ts_to_sign_at \in DOMAIN SignTimes, t \in Times,
       net_at \in DOMAIN SettleAnswers :
        LET ts_to_sign == SignTimes[ts_to_sign_at]
            net == SettleAnswers[net_at]
        IN
        /\ pc = "idle"
        /\ Finished("settlement_loyalty",
                    [tokens |-> tokens, ts_to_sign |-> ts_to_sign, t |-> t, net |-> net],
                    settlement_loyalty(tokens, <<116, 99>>, ts_to_sign, <<80, 75, 71>>, 100, t,
                          net))
        /\ UNCHANGED <<service_vars, XDATA_KEY, X_API_BASE_SECRET, AX_API_SIG_KEY, ENCRYPTED_FIELD_KEY,
                       env_XDATA_KEYS, earlier, file_xdata_keys, api_key, wire>>

\* RedeemClient.bounty_allotment
BountyAllotment ==
    \E tokens \in ClientTokens, ts_to_sign_at \in DOMAIN SignTimes, t \in Times,
       net_at \in DOMAIN SettleAnswers :
        LET ts_to_sign == SignTimes[ts_to_sign_at]
            net == SettleAnswers[net_at]
        IN
        /\ pc = "idle"
        /\ Finished("bounty_allotment",
                    [tokens |-> tokens, ts_to_sign |-> ts_to_sign, t |-> t, net |-> net],
                    bounty_allotment(tokens, ts_to_sign, <<54, 50, 56, 49, 50, 51, 52, 53, 54,
                          55, 56, 57, 48>>, <<103, 105, 102, 116>>, <<80, 75, 71>>,
                                     <<116, 99>>, t, net))
        /\ UNCHANGED <<service_vars, XDATA_KEY, X_API_BASE_SECRET, AX_API_SIG_KEY, ENCRYPTED_FIELD_KEY,
                       env_XDATA_KEYS, earlier, file_xdata_keys, api_key, wire>>

\* CiamClient.submit_otp
SubmitOtp ==
    \E contact_type \in {<<83, 77, 83>>, <<68, 69, 86, 73, 67, 69, 73, 68>>},
       contact \in Contacts, net_at \in DOMAIN OtpAnswers :
        LET net == OtpAnswers[net_at]
        IN
        /\ pc = "idle"
        /\ Finished("submit_otp", [contact_type |-> contact_type, contact |-> contact,
              net |-> net],
                    submit_otp(contact_type, contact, <<49, 50, 51, 52>>, TS_GMT7, net))
        /\ UNCHANGED <<service_vars, XDATA_KEY, X_API_BASE_SECRET, AX_API_SIG_KEY, ENCRYPTED_FIELD_KEY,
                       env_XDATA_KEYS, earlier, file_xdata_keys, api_key, wire>>

\* ------------------------------------------------------------------------
\* Signature generators called on their own
\* ------------------------------------------------------------------------

\* sig_time_sec / ts_for_sign arguments: a second, the empty string, None
SigTimes == <<JInt(SERVER_TS), JStr(<<>>), JNULL>>

PACKAGE_CODE == <<80, 75, 71>>

MSISDN == <<54, 50, 56, 49, 50, 51, 52, 53, 54, 55, 56, 57, 48>>

\* a second value for each of the remaining inputs
GET == <<71, 69, 84>>

PATH_OTHER == <<97, 112, 105, 47, 118, 57>>

PACKAGE_CODE_OTHER == <<80, 75, 72>>

TOKEN_PAYMENT == <<116, 112>>

TOKEN_PAYMENT_OTHER == <<116, 113>>

BALANCE == <<66, 65, 76, 65, 78, 67, 69>>

QRIS == <<81, 82, 73, 83>>

BUY_PACKAGE == <<66, 85, 89, 95, 80, 65, 67, 75, 65, 71, 69>>

REDEEM == <<82, 69, 68, 69, 69, 77>>

MSISDN_OTHER == <<54, 50, 56, 49, 50, 51, 52, 53, 54, 55, 56, 57, 49>>

SMS == <<83, 77, 83>>

EMAIL == <<69, 77, 65, 73, 76>>

\* the input numbered i takes its second value when the call varies input k
vary(base, other, i, k) == IF k = i THEN other ELSE base

MakeXSignature ==
    \E id_token \in Tokens, sig_time_sec_at \in DOMAIN SigTimes, k \in 0..2 :
        LET sig_time_sec == SigTimes[sig_time_sec_at]
            method == vary(POST, GET, 1, k)
            path == vary(PATH_GENERIC, PATH_OTHER, 2, k)
        IN
        /\ pc = "idle"
        /\ Finished("make_x_signature",
                    [token |-> id_token, sig_time |-> sig_time_sec,
                     inputs |-> <<id_token, method, path, fmt(sig_time_sec)>>],
                    Returns(make_x_signature(id_token, method, path, sig_time_sec), <<>>))
        /\ UNCHANGED <<service_vars, XDATA_KEY, X_API_BASE_SECRET, AX_API_SIG_KEY, ENCRYPTED_FIELD_KEY,
                       env_XDATA_KEYS, earlier, file_xdata_keys, api_key, wire>>

MakeXSignaturePayment ==
    \E access_token \in Tokens, sig_time_sec_at \in DOMAIN SigTimes, k \in 0..5 :
        LET sig_time_sec == SigTimes[sig_time_sec_at]
            package_code == vary(PACKAGE_CODE, PACKAGE_CODE_OTHER, 1, k)
            token_payment == vary(TOKEN_PAYMENT, TOKEN_PAYMENT_OTHER, 2, k)
            payment_method == vary(BALANCE, QRIS, 3, k)
            payment_for == vary(BUY_PACKAGE, REDEEM, 4, k)
            path == vary(PATH_SETTLEMENT, PATH_OTHER, 5, k)
        IN
        /\ pc = "idle"
        /\ Finished("make_x_signature_payment",
                    [token |-> access_token, sig_time |-> sig_time_sec,
                     inputs |-> <<access_token, fmt(sig_time_sec), package_code, token_payment,
                                  payment_method, payment_for, path>>],
                    Returns(make_x_signature_payment(access_token, sig_time_sec, package_code,
                                                     token_payment, payment_method, payment_for,
                                                     path), <<>>))
        /\ UNCHANGED <<service_vars, XDATA_KEY, X_API_BASE_SECRET, AX_API_SIG_KEY, ENCRYPTED_FIELD_KEY,
                       env_XDATA_KEYS, earlier, file_xdata_keys, api_key, wire>>

MakeXSignatureBounty ==
    \E access_token \in Tokens, sig_time_sec_at \in DOMAIN SigTimes, k \in 0..2 :
        LET sig_time_sec == SigTimes[sig_time_sec_at]
            package_code == vary(PACKAGE_CODE, PACKAGE_CODE_OTHER, 1, k)
            token_payment == vary(TOKEN_PAYMENT, TOKEN_PAYMENT_OTHER, 2, k)
        IN
        /\ pc = "idle"
        /\ Finished("make_x_signature_bounty",
                    [token |-> access_token, sig_time |-> sig_time_sec,
                     inputs |-> <<access_token, fmt(sig_time_sec), package_code, token_payment>>],
                    Returns(make_x_signature_bounty(access_token, sig_time_sec, package_code,
                                                    token_payment), <<>>))
        /\ UNCHANGED <<service_vars, XDATA_KEY, X_API_BASE_SECRET, AX_API_SIG_KEY, ENCRYPTED_FIELD_KEY,
                       env_XDATA_KEYS, earlier, file_xdata_keys, api_key, wire>>

MakeXSignatureLoyalty ==
    \E token_confirmation \in Tokens, sig_time_sec_at \in DOMAIN SigTimes, k \in 0..2 :
        LET sig_time_sec == SigTimes[sig_time_sec_at]
            package_code == vary(PACKAGE_CODE, PACKAGE_CODE_OTHER, 1, k)
            path == vary(PATH_LOYALTY, PATH_OTHER, 2, k)
        IN
        /\ pc = "idle"
        /\ Finished("make_x_signature_loyalty",
                    [token |-> token_confirmation, sig_time |-> sig_time_sec,
                     inputs |-> <<fmt(sig_time_sec), package_code, token_confirmation, path>>],
                    Returns(make_x_signature_loyalty(sig_time_sec, package_code,
                                                     token_confirmation, path), <<>>))
        /\ UNCHANGED <<service_vars, XDATA_KEY, X_API_BASE_SECRET, AX_API_SIG_KEY, ENCRYPTED_FIELD_KEY,
                       env_XDATA_KEYS, earlier, file_xdata_keys, api_key, wire>>

MakeXSignatureBountyAllotment ==
    \E token_confirmation \in Tokens, sig_time_sec_at \in DOMAIN SigTimes, k \in 0..3 :
        LET sig_time_sec == SigTimes[sig_time_sec_at]
            package_code == vary(PACKAGE_CODE, PACKAGE_CODE_OTHER, 1, k)
            path == vary(PATH_ALLOTMENT, PATH_OTHER, 2, k)
            destination_msisdn == vary(MSISDN, MSISDN_OTHER, 3, k)
        IN
        /\ pc = "idle"
        /\ Finished("make_x_signature_bounty_allotment",
                    [token |-> token_confirmation, sig_time |-> sig_time_sec,
                     inputs |-> <<fmt(sig_time_sec), package_code, token_confirmation, path,
                                  destination_msisdn>>],
                    Returns(make_x_signature_bounty_allotment(sig_time_sec, package_code,
                                                              token_confirmation, path,
                                                              destination_msisdn), <<>>))
        /\ UNCHANGED <<service_vars, XDATA_KEY, X_API_BASE_SECRET, AX_API_SIG_KEY, ENCRYPTED_FIELD_KEY,
                       env_XDATA_KEYS, earlier, file_xdata_keys, api_key, wire>>

MakeAxApiSignature ==
    \E code \in {<<>>, <<49, 50, 51, 52>>}, ts_for_sign \in {JStr(TS_GMT7), JStr(<<>>)},
       k \in 0..2 :
        LET contact == vary(MSISDN, MSISDN_OTHER, 1, k)
            contact_type == vary(SMS, EMAIL, 2, k)
        IN
        /\ pc = "idle"
        /\ Finished("make_ax_api_signature",
                    [token |-> code, sig_time |-> ts_for_sign,
                     inputs |-> <<ts_for_sign.v, contact, code, contact_type>>],
                    Returns(make_ax_api_signature(ts_for_sign.v, contact, code, contact_type),
                            <<>>))
        /\ UNCHANGED <<service_vars, XDATA_KEY, X_API_BASE_SECRET, AX_API_SIG_KEY, ENCRYPTED_FIELD_KEY,
                       env_XDATA_KEYS, earlier, file_xdata_keys, api_key, wire>>

\* ------------------------------------------------------------------------
\* The client calls under the signing-secret set-ups
\* ------------------------------------------------------------------------

ClientInit == InitSecrets /\ Quiet

ClientNext ==
    \/ SendApiRequest
    \/ ExecutePurchase
    \/ ExecuteTransaction
    \/ SettlementBounty
    \/ SettlementLoyalty
    \/ BountyAllotment
    \/ SubmitOtp
    \/ MakeXSignature
    \/ MakeXSignaturePayment
    \/ MakeXSignatureBounty
    \/ MakeXSignatureLoyalty
    \/ MakeXSignatureBountyAllotment
    \/ MakeAxApiSignature
    \/ Finish

ClientSpec == ClientInit /\ [][ClientNext]_vars

\* ------------------------------------------------------------------------
\* Properties of the client calls
\* ------------------------------------------------------------------------

SignatureCalls ==
    {"make_x_signature", "make_x_signature_payment", "make_x_signature_bounty",
     "make_x_signature_loyalty", "make_x_signature_bounty_allotment", "make_ax_api_signature"}

RequestCalls ==
    {"send_api_request", "execute_purchase", "execute_transaction", "settlement_bounty",
     "settlement_loyalty", "bounty_allotment"}

SettlementPaths == {PATH_SETTLEMENT, PATH_QRIS, PATH_BOUNTY, PATH_LOYALTY, PATH_ALLOTMENT}

\* C4: a signature generator called with an empty token or with an empty or
\* missing timestamp returns ""
C4_EmptyInputEmptySignature ==
    (/\ pc = "done"
     /\ ret.op \in SignatureCalls
     /\ (ret.args.token = <<>> \/ Falsy(ret.args.sig_time)))
        => ret.v = <<>>

\* the x-signature or Ax-Api-Signature header of a request
signature_of(request) ==
    IF "ax_api_signature" \in DOMAIN request THEN request.ax_api_signature
    ELSE request.x_signature

\* C5: no request that was sent carries an empty x-signature or
\* Ax-Api-Signature header
C5_NoEmptySignatureSent ==
    \A i \in 1..Len(http) : signature_of(http[i]) /= <<>>

\* the requests signed with x-signature
XSigned == {i \in 1..Len(http) : "x_signature" \in DOMAIN http[i]}

\* the sig_time a digest binds: the text after the last ";" of its key (a
\* sig_time that can be signed is ASCII, so its bytes are its characters)
bound_sig_time(sig) ==
    Let([key \in {sig[2]} |->
        Let([semis \in {{i \in 1..Len(key) : key[i] = 59}} |->
        Let([last \in {CHOOSE i \in semis : \A j \in semis : j <= i} |->
        SubSeq(key, last + 1, Len(key))])])])

\* xtime // 1000 of the envelope a request carries, as text
envelope_seconds(request) ==
    str_int(EPOCH_SEC + (DictGet(request.envelope.v, K_XTIME).v \div 1000))

\* C6: the sig_time bound into the signature of every request is the
\* envelope's xtime // 1000, the value carried in x-signature-time
C6_SigTimeIsEnvelopeSeconds ==
    \A i \in XSigned :
        http[i].x_signature /= <<>>
            => /\ bound_sig_time(http[i].x_signature) = envelope_seconds(http[i])
               /\ bound_sig_time(http[i].x_signature) = http[i].x_signature_time

\* the timestamp a settlement call was given to sign: the "timestamp" of the
\* payment options for a purchase, the ts_to_sign argument for a redeem
ts_to_sign_of(call) ==
    IF call.op \in {"execute_purchase", "execute_transaction"}
    THEN dict_get(dict_get(call.args.net_options.json, K_DATA), K_TIMESTAMP)
    ELSE call.args.ts_to_sign

\* C6 as amended: x-signature-time is the envelope's xtime // 1000 in every
\* request; the generic signature binds that value, and the payment, bounty,
\* loyalty and allotment signatures bind ts_to_sign instead
C6_SigTimeBySignatureKind ==
    \A i \in XSigned :
        /\ http[i].x_signature_time = envelope_seconds(http[i])
        /\ http[i].x_signature /= <<>>
            => bound_sig_time(http[i].x_signature) =
                   IF http[i].path \in SettlementPaths THEN fmt(ts_to_sign_of(ret))
                   ELSE http[i].x_signature_time

\* a purchase has sent three requests: two generic ones and a settlement whose
\* signature binds the server's timestamp, 121 seconds away from the envelope's
C6_Witness ==
    /\ pc = "done"
    /\ ret.op = "execute_purchase"
    /\ Len(http) = 3
    /\ http[3].path = PATH_SETTLEMENT
    /\ http[3].x_signature /= <<>>
    /\ http[3].x_signature_time = str_int(EPOCH_SEC + 2)
    /\ bound_sig_time(http[3].x_signature) = str_int(SERVER_TS)
    /\ bound_sig_time(http[1].x_signature) = str_int(EPOCH_SEC + 2)

\* the payment options of a purchase were fetched, so its settlement step
\* was reached
OptionsFetched ==
    /\ ret.op \in {"execute_purchase", "execute_transaction"}
    /\ \E i \in 1..Len(http) : http[i].path = PATH_OPTIONS
    /\ ret.args.net_options = OPT_OK

\* the envelope of the finished call could not be made: no valid XDATA_KEY,
\* or a settlement payload whose access token cannot be encoded
EnvelopeFails ==
    \/ ~_key_bytes(XDATA_KEY).ok
    \/ OptionsFetched /\ ret.args.tokens = TOKENS_BAD_ACCESS

\* C10: a call whose envelope encryption fails raises nothing and sends no
\* request for that envelope
C10_EmptyEnvelopeHandled ==
    (pc = "done" /\ ret.op \in RequestCalls /\ EnvelopeFails)
        => /\ ~ret.raised
           /\ \A i \in 1..Len(http) : http[i].path \notin SettlementPaths
           /\ ~_key_bytes(XDATA_KEY).ok => http = <<>>

\* the fields of a row of the signature table, each followed by ";" except
\* the last
Row(fields) ==
    Concat([i \in 1..(2 * Len(fields) - 1) |->
                IF i % 2 = 1 THEN fields[(i + 1) \div 2] ELSE SEMI])

XSignatureCalls == SignatureCalls \ {"make_ax_api_signature"}

\* the signing key of the table for a call of an x-signature generator
table_key(call) ==
    Let([in \in {call.args.inputs} |->
        Let([base \in {X_API_BASE_SECRET} |->
        CASE call.op = "make_x_signature" ->
                 Row(<<base, in[1], in[2], in[3], in[4]>>)
          [] call.op = "make_x_signature_payment" ->
                 Row(<<base, in[2] \o SIG_MARKER, POST, in[7], in[2]>>)
          [] call.op = "make_x_signature_bounty" ->
                 Row(<<base, in[1], in[2] \o SIG_MARKER, POST, PATH_BOUNTY, in[2]>>)
          [] call.op = "make_x_signature_loyalty" ->
                 Row(<<base, in[1] \o SIG_MARKER, POST, in[4], in[1]>>)
          [] call.op = "make_x_signature_bounty_allotment" ->
                 Row(<<base, in[1] \o SIG_MARKER, in[5], POST, in[4], in[1]>>)])])

\* the message of the table, with its trailing ";"
table_message(call) ==
    Let([in \in {call.args.inputs} |->
        CASE call.op = "make_x_signature" ->
                 Row(<<in[1], in[4]>>) \o SEMI
          [] call.op = "make_x_signature_payment" ->
                 Row(<<in[1], in[4], in[2], in[6], in[5], in[3]>>) \o SEMI
          [] call.op = "make_x_signature_bounty" ->
                 Row(<<in[1], in[4], in[2], in[3]>>) \o SEMI
          [] call.op = "make_x_signature_loyalty" ->
                 Row(<<in[3], in[1], in[2]>>) \o SEMI
          [] call.op = "make_x_signature_bounty_allotment" ->
                 Row(<<in[3], in[1], in[5], in[2]>>) \o SEMI])

\* ";POST;<path>;<sig_time>", the end of the signing key of a request
key_end(request) ==
    SEMI \o request.method \o SEMI \o request.path \o SEMI
        \o bound_sig_time(request.x_signature)

\* C12: the HMAC-SHA512 key and message of each of the five x-signature
\* generators are the ";"-joined fields of the signature table, in table
\* order, the message with a trailing ";"; the signing key of a request that
\* is sent binds the method and the path of that request.
C12_KeyAndMessageFollowTable ==
    /\ (pc = "done" /\ ret.op \in XSignatureCalls /\ ret.v /= <<>>)
           => ret.v = HMAC("sha512-hex", utf8_bytes(table_key(ret)),
                           utf8_bytes(table_message(ret)))
    /\ \A i \in XSigned :
           http[i].x_signature /= <<>>
               => Last_n(http[i].x_signature[2], Len(key_end(http[i]))) = key_end(http[i])

\* an allotment signature, and a settlement request that carries a signature
C12_Witness ==
    \/ /\ pc = "done"
       /\ ret.op = "make_x_signature_bounty_allotment"
       /\ ret.args.inputs[5] = MSISDN_OTHER
       /\ ret.v /= <<>>
    \/ /\ pc = "done"
       /\ ret.op = "settlement_bounty"
       /\ Len(http) = 1
       /\ http[1].x_signature /= <<>>

\* the requests _send_request has sent
SentBySendRequest ==
    {i \in XSigned : http[i].path \notin SettlementPaths}

\* C15: a request sent by _send_request carries x-hv "v3" and
\* x-signature-time = str(xtime // 1000) of its envelope; its body, when it
\* has one, is the envelope and has exactly the fields xdata and xtime; the
\* IV derived from xtime is the one xdata was encrypted with.
C15_RequestCarriesEnvelope ==
    \A i \in SentBySendRequest :
        Let([e \in {http[i].envelope} |->
            Let([xtime \in {DictGet(e.v, K_XTIME)} |->
            Let([xdata \in {DictGet(e.v, K_XDATA)} |->
            /\ "none" \notin DOMAIN http[i].body
                => /\ http[i].body = e
                   /\ Len(http[i].body.v) = 2
            /\ Keys(e.v) = {K_XDATA, K_XTIME}
            /\ xtime.t = "int"
            /\ xdata.t = "str"
            /\ http[i].x_hv = <<118, 51>>
            /\ http[i].x_signature_time = str_int(EPOCH_SEC + (xtime.v \div 1000))
            /\ ret.op = "send_api_request"
                => /\ xtime.v = ret.args.t
                   /\ AES_CBC_decrypt(_key_bytes(XDATA_KEY).v, SHA256_HEX16(xtime_str(xtime.v)),
                                      urlsafe_b64decode(xdata.v).v).v
                          = pad(encode_utf8(_safe_json_dumps(ret.args.payload)).v)])])])

\* a POST request of send_api_request was sent with its envelope as body
C15_Witness ==
    /\ pc = "done"
    /\ ret.op = "send_api_request"
    /\ ret.args.t = 2500
    /\ Len(http) = 1
    /\ http[1].method = POST
    /\ http[1].body = http[1].envelope
    /\ http[1].x_signature_time = str_int(EPOCH_SEC + 2)

\* AX_API_SIG_KEY is missing or holds a character outside ASCII
NoAsciiKey ==
    \/ AX_API_SIG_KEY = <<>>
    \/ \E i \in 1..Len(AX_API_SIG_KEY) : AX_API_SIG_KEY[i] > 127

\* C20: the Ax-Api-Signature is base64(HMAC-SHA256(key, ts + "password" +
\* contact_type + contact + code + "openid")) under the ASCII bytes of
\* AX_API_SIG_KEY; without a key, or with a key that is not ASCII, it is ""
\* and submit_otp sends no request.
C20_AxApiSignature ==
    /\ (pc = "done" /\ ret.op = "make_ax_api_signature")
           => ret.v = IF NoAsciiKey THEN <<>>
                      ELSE HMAC("sha256-b64", AX_API_SIG_KEY,
                                utf8_bytes(ret.args.inputs[1] \o PASSWORD
                                           \o ret.args.inputs[4] \o ret.args.inputs[2]
                                           \o ret.args.inputs[3] \o OPENID))
    /\ (pc = "done" /\ ret.op = "submit_otp")
           => /\ NoAsciiKey => http = <<>>
              /\ \A i \in 1..Len(http) :
                     /\ http[i].ax_api_signature /= <<>>
                     /\ http[i].ax_api_signature[1] = "sha256-b64"
                     /\ http[i].ax_api_signature[2] = AX_API_SIG_KEY

\* submit_otp for a valid number has returned without a request under the
\* key "Axé"
C20_Witness ==
    /\ pc = "done"
    /\ ret.op = "submit_otp"
    /\ AX_API_SIG_KEY = AX_KEY_NON_ASCII
    /\ ret.args.contact = MSISDN
    /\ ret.args.contact_type = SMS
    /\ ret.args.net = NET_OK_PLAIN
    /\ http = <<>>

\* the body of the answer is an envelope
AnsweredWithEnvelope ==
    /\ pc = "done"
    /\ ret.op = "send_api_request"
    /\ IsResponse(ret.args.net)
    /\ ret.args.net.is_json
    /\ IsDict(ret.args.net.json)
    /\ K_XDATA \in Keys(ret.args.net.json.v)
    /\ K_XTIME \in Keys(ret.args.net.json.v)

\* C28: what send_api_request returns for an answer whose body is an
\* envelope is never that body itself: the caller gets the decrypted
\* object, or an error, and not the raw {xdata, xtime}.
C28_EnvelopeNeverReturnedRaw ==
    AnsweredWithEnvelope => (ret.raised \/ ret.v /= ret.args.net.json)

\* ------------------------------------------------------------------------
\* Two calls of one run: the first is kept and a later one compared with it
\* ------------------------------------------------------------------------

\* the caller keeps the outcome of the first call of the run
Remember ==
    /\ pc = "done"
    /\ earlier = NO_CALL
    /\ earlier' = ret
    /\ pc' = "idle"
    /\ ret' = NO_CALL
    /\ http' = <<>>
    /\ UNCHANGED <<service_vars, XDATA_KEY, X_API_BASE_SECRET, AX_API_SIG_KEY, ENCRYPTED_FIELD_KEY,
                   env_XDATA_KEYS, file_xdata_keys, api_key, wire>>

\* The signature generators called twice under each set-up of the secrets
SignInit == ClientInit /\ XDATA_KEY = K_A /\ api_key = API_KEY

SignNext ==
    \/ MakeXSignature
    \/ MakeXSignaturePayment
    \/ MakeXSignatureBounty
    \/ MakeXSignatureLoyalty
    \/ MakeXSignatureBountyAllotment
    \/ MakeAxApiSignature
    \/ Remember
    \/ Finish

SignSpec == SignInit /\ [][SignNext]_vars

\* two calls of the same generator
TwoSignatures == earlier.op \in SignatureCalls /\ ret.op = earlier.op

\* the inputs in which the two calls differ
ChangedInputs ==
    {i \in DOMAIN ret.args.inputs : ret.args.inputs[i] /= earlier.args.inputs[i]}

\* C11: each signature generator is a function of its inputs, and changing
\* exactly one input while the others are held fixed changes the signature.
C11_OneFieldChangesSignature ==
    TwoSignatures =>
        /\ ChangedInputs = {} => ret.v = earlier.v
        /\ Cardinality(ChangedInputs) = 1 => ret.v /= earlier.v

\* C11 (amended): the same, for calls that produce a signature; a generator
\* that fails returns "" whatever its inputs are.
C11_SignatureStability ==
    TwoSignatures =>
        /\ ChangedInputs = {} => ret.v = earlier.v
        /\ Cardinality(ChangedInputs) = 1 /\ ~(ret.v = <<>> /\ earlier.v = <<>>)
               => ret.v /= earlier.v

\* two payment signatures that differ in the path only
C11_Witness ==
    /\ TwoSignatures
    /\ ret.op = "make_x_signature_payment"
    /\ ChangedInputs = {7}
    /\ ret.v /= <<>>
    /\ earlier.v /= <<>>
    /\ ret.v /= earlier.v

\* ------------------------------------------------------------------------
\* The envelope codec of crypto_helper over a run in which the environment
\* and the key file change
\* ------------------------------------------------------------------------

\* ciphertexts of {"a":"b"} made at 1700000000000 under two keys
Sealed == {encrypt_with(k, encode_utf8(_safe_json_dumps(P_AB)).v, 0) : k \in {K_A, K_B}}

\* crypto_helper.decrypt_xdata called on its own
DecryptXdata ==
    \E xdata \in Sealed, xtime_ms \in XTimes :
        /\ pc = "idle"
        /\ wire = NO_WIRE
        /\ Called("crypto_helper.decrypt_xdata", [xdata |-> xdata, t |-> xtime_ms],
                  Return(decrypt_xdata(xdata, xtime_ms)))
        /\ http' = <<>>
        /\ UNCHANGED <<service_vars, XDATA_KEY, X_API_BASE_SECRET, AX_API_SIG_KEY, ENCRYPTED_FIELD_KEY,
                       env_XDATA_KEYS, earlier, file_xdata_keys, api_key, wire>>

\* try_load_dotenv: XDATA_KEYS of the .env file is put into the environment,
\* over a value already there only with override
TryLoadDotenv ==
    \E override \in BOOLEAN, value \in KeyListSettings :
        /\ pc = "idle"
        /\ env_XDATA_KEYS' = IF override \/ env_XDATA_KEYS = <<>> THEN value
                             ELSE env_XDATA_KEYS
        /\ UNCHANGED <<service_vars, XDATA_KEY, X_API_BASE_SECRET, AX_API_SIG_KEY, ENCRYPTED_FIELD_KEY,
                       earlier, file_xdata_keys, api_key, wire, pc, ret, http>>

\* the file xdata.keys is written, or removed, between two calls
WriteKeyFile ==
    \E lines \in KeyFileSettings :
        /\ pc = "idle"
        /\ file_xdata_keys' = lines
        /\ UNCHANGED <<service_vars, XDATA_KEY, X_API_BASE_SECRET, AX_API_SIG_KEY, ENCRYPTED_FIELD_KEY,
                       env_XDATA_KEYS, earlier, api_key, wire, pc, ret, http>>

RunInit == InitRotation /\ Quiet /\ XDATA_KEY \in {K_A, K_B, <<>>}

RunNext ==
    \/ EncryptXdata
    \/ DecryptXdata
    \/ TryLoadDotenv
    \/ WriteKeyFile
    \/ Remember
    \/ Finish

RunSpec == RunInit /\ [][RunNext]_vars

\* two calls of encrypt_xdata
TwoEncrypts == earlier.op = "encrypt_xdata" /\ ret.op = "encrypt_xdata"

\* C13: two calls of encrypt_xdata with the same plaintext and the same xtime
\* return the same ciphertext, whatever calls and changes of the environment
\* came between them.
C13_EncryptDeterministic ==
    (TwoEncrypts /\ ret.args = earlier.args) => ret.v = earlier.v

\* a ciphertext was produced twice
C13_Witness ==
    /\ TwoEncrypts
    /\ ret.args = earlier.args
    /\ ret.args.payload = P_NESTED
    /\ ret.args.t = JInt(2500)
    /\ ret.v /= <<>>
    /\ ret.v = earlier.v

\* the IV a ciphertext of encrypt_xdata was made with: the first plaintext
\* block XOR the block decryption of the first ciphertext block
iv_used(call) ==
    Let([ct \in {urlsafe_b64decode(call.v).v} |->
        Let([pt \in {pad(encode_utf8(_safe_json_dumps(call.args.payload)).v)} |->
        XorBytes(AES_decrypt_block(_key_bytes(XDATA_KEY).v, SubSeq(ct, 1, 16)),
                 SubSeq(pt, 1, 16))])])

\* C14: the IV of a ciphertext is 16 bytes, it is the first 16 hex digits of
\* SHA-256 of the timestamp's decimal text when the timestamp is an integer,
\* it decrypts the ciphertext again under the same timestamp, and two
\* ciphertexts made at distinct timestamps were made with distinct IVs.
C14_IvFromTimestampAlone ==
    /\ (pc = "done" /\ ret.op = "encrypt_xdata" /\ ret.v /= <<>>)
           => /\ Len(iv_used(ret)) = 16
              /\ ret.args.t.t = "int"
                     => iv_used(ret) = SHA256_HEX16(xtime_str(ret.args.t.v))
              /\ _try_decrypt_with_key(ret.v, ret.args.t, _key_bytes(XDATA_KEY).v).v
                     = _safe_json_dumps(ret.args.payload)
    /\ (TwoEncrypts /\ ret.v /= <<>> /\ earlier.v /= <<>> /\ ret.args.t /= earlier.args.t)
           => iv_used(ret) /= iv_used(earlier)

\* two calls of crypto_helper.decrypt_xdata on the same ciphertext and xtime
TwoDecrypts ==
    /\ earlier.op = "crypto_helper.decrypt_xdata"
    /\ ret.op = "crypto_helper.decrypt_xdata"
    /\ ret.args = earlier.args

\* C19: decrypting the same (xdata, xtime) at two points of a run gives the
\* same result, whatever happened to XDATA_KEYS and to xdata.keys in between.
C19_KeyListFixedForLifetime ==
    TwoDecrypts => ret.v = earlier.v

\* ------------------------------------------------------------------------
\* The MSISDN codec and the field obfuscator under the settings of
\* ENCRYPTED_FIELD_KEY
\* ------------------------------------------------------------------------

\* a key of 24 characters that strip() shortens to the 16 of K_A
K_A_SPACED == <<32, 32, 32, 32>> \o K_A \o <<32, 32, 32, 32>>

FieldKeySettings == {K_A, K_32, K_A_HEX, K_A_B64, K_A_SPACED, K_SHORT, <<>>}

\* phone numbers of 1, 13 and 15 digits, and one that fills a block
Msisdns == {<<54>>, MSISDN, MSISDN \o <<49, 50>>, MSISDN \o <<49, 50, 51>>}

\* values of os.urandom(8).hex() and secrets.token_hex(8)
IV_0 == <<48, 48, 48, 48, 48, 48, 48, 48, 48, 48, 48, 48, 48, 48, 48, 48>>

IV_1 == <<48, 49, 50, 51, 52, 53, 54, 55, 56, 57, 97, 98, 99, 100, 101, 102>>

IV_2 == <<48, 49, 50, 51, 52, 53, 54, 55, 56, 57, 97, 98, 99, 100, 49, 51>>

RandomHex == {IV_0, IV_1, IV_2}

\* what can happen to a blob before it is decrypted
Corruptions == {"none", "truncate", "short", "no_ciphertext", "not_base64", "unpadded"}

\* a blob whose plaintext is a full block of digits without PKCS7 padding
unpadded_blob(iv_hex) ==
    Let([key \in {_key_bytes(ENCRYPTED_FIELD_KEY)} |->
        Let([ct \in {AES_CBC_encrypt(key.v, iv_hex, MSISDN \o <<49, 50, 51>>)} |->
        IF key.ok THEN urlsafe_b64encode(ct.v) \o iv_hex ELSE iv_hex])])

corrupted(blob, kind) ==
    CASE kind = "none" -> blob
      [] kind = "truncate" -> SubSeq(blob, 1, Len(blob) - 1)
      [] kind = "short" -> SubSeq(blob, 1, 10)
      [] kind = "no_ciphertext" -> Last_n(blob, 16)
      [] kind = "not_base64" -> <<33>> \o blob
      [] kind = "unpadded" -> unpadded_blob(Last_n(blob, 16))

\* crypto_helper.encrypt_circle_msisdn
EncryptCircleMsisdn ==
    \E msisdn \in Msisdns \cup {<<>>}, urandom_hex \in RandomHex :
        /\ pc = "idle"
        /\ Called("encrypt_circle_msisdn", [msisdn |-> msisdn, iv_hex |-> urandom_hex],
                  Return(encrypt_circle_msisdn(msisdn, urandom_hex)))
        /\ http' = <<>>
        /\ UNCHANGED <<service_vars, XDATA_KEY, X_API_BASE_SECRET, AX_API_SIG_KEY, ENCRYPTED_FIELD_KEY,
                       env_XDATA_KEYS, earlier, file_xdata_keys, api_key, wire>>

\* crypto_helper.decrypt_circle_msisdn on the blob of the earlier
\* encrypt_circle_msisdn call, as it is or corrupted
DecryptCircleMsisdn ==
    \E kind \in Corruptions :
        /\ pc = "idle"
        /\ earlier.op = "encrypt_circle_msisdn"
        /\ earlier.v /= <<>>
        /\ Called("decrypt_circle_msisdn",
                  [blob |-> corrupted(earlier.v, kind), corruption |-> kind],
                  Return(decrypt_circle_msisdn(corrupted(earlier.v, kind))))
        /\ http' = <<>>
        /\ UNCHANGED <<service_vars, XDATA_KEY, X_API_BASE_SECRET, AX_API_SIG_KEY, ENCRYPTED_FIELD_KEY,
                       env_XDATA_KEYS, earlier, file_xdata_keys, api_key, wire>>

\* iv_hex16 arguments of build_encrypted_field
IvArguments == {JNULL, JStr(<<65, 66, 67, 68, 69, 70, 48, 49, 50, 51, 52, 53, 54, 55, 56, 57>>),
                JStr(<<120, 121, 122>>)}

\* build_encrypted_field of app/client/encrypt.py
BuildEncryptedField ==
    \E iv_hex16 \in IvArguments, urlsafe_b64 \in BOOLEAN, token_hex \in RandomHex :
        /\ pc = "idle"
        /\ Called("build_encrypted_field",
                  [iv_hex16 |-> iv_hex16, urlsafe_b64 |-> urlsafe_b64, token_hex |-> token_hex],
                  Return(build_encrypted_field(iv_hex16, urlsafe_b64, token_hex)))
        /\ http' = <<>>
        /\ UNCHANGED <<service_vars, XDATA_KEY, X_API_BASE_SECRET, AX_API_SIG_KEY, ENCRYPTED_FIELD_KEY,
                       env_XDATA_KEYS, earlier, file_xdata_keys, api_key, wire>>

CodecInit ==
    /\ XDATA_KEY = K_A
    /\ X_API_BASE_SECRET = SECRET
    /\ AX_API_SIG_KEY = AX_KEY
    /\ ENCRYPTED_FIELD_KEY \in FieldKeySettings
    /\ env_XDATA_KEYS = <<>>
    /\ file_xdata_keys = NONE
    /\ api_key = API_KEY
    /\ Quiet

CodecNext ==
    \/ EncryptCircleMsisdn
    \/ DecryptCircleMsisdn
    \/ BuildEncryptedField
    \/ Remember
    \/ Finish

CodecSpec == CodecInit /\ [][CodecNext]_vars

\* decrypt_circle_msisdn has returned for the blob of the earlier call
BlobDecrypted ==
    /\ pc = "done"
    /\ ret.op = "decrypt_circle_msisdn"
    /\ earlier.op = "encrypt_circle_msisdn"

\* C16: under a valid ENCRYPTED_FIELD_KEY, decrypt_circle_msisdn of the blob
\* encrypt_circle_msisdn made of a non-empty MSISDN is that MSISDN, for every
\* IV the encryptor draws.
C16_MsisdnRoundTrip ==
    (/\ BlobDecrypted
     /\ ret.args.corruption = "none"
     /\ _key_bytes(ENCRYPTED_FIELD_KEY).ok
     /\ earlier.args.msisdn /= <<>>)
        => ret.v = earlier.args.msisdn

\* a 16-digit number came back under the b64: key and the IV 0123456789abcd13
C16_Witness ==
    /\ BlobDecrypted
    /\ ret.args.corruption = "none"
    /\ ENCRYPTED_FIELD_KEY = K_A_B64
    /\ earlier.args.iv_hex = IV_2
    /\ Len(earlier.args.msisdn) = 16
    /\ ret.v = earlier.args.msisdn

\* C17: decrypt_circle_msisdn of a blob whose last character was removed, and
\* of any corrupt blob, returns "" and raises nothing.
C17_CorruptBlobGivesEmpty ==
    (BlobDecrypted /\ ret.args.corruption /= "none")
        => (~ret.raised /\ ret.v = <<>>)

\* C18: a setting of ENCRYPTED_FIELD_KEY that encrypt_circle_msisdn accepts
\* is accepted by build_encrypted_field, which encrypts under the same key
\* bytes.
C18_SameKeyForBothConsumers ==
    (/\ pc = "done"
     /\ ret.op = "build_encrypted_field"
     /\ Falsy(ret.args.iv_hex16)
     /\ earlier.op = "encrypt_circle_msisdn"
     /\ earlier.v /= <<>>)
        => /\ ret.v /= <<>>
           /\ ret.v = (IF ret.args.urlsafe_b64 THEN urlsafe_b64encode(
                            AES_CBC_encrypt(_key_bytes(ENCRYPTED_FIELD_KEY).v,
                                            ret.args.token_hex, pad(<<>>)).v)
                       ELSE b64encode(AES_CBC_encrypt(_key_bytes(ENCRYPTED_FIELD_KEY).v,
                                                      ret.args.token_hex, pad(<<>>)).v))
                          \o ret.args.token_hex

\* ------------------------------------------------------------------------
\* The device fingerprint, one call at a time
\* ------------------------------------------------------------------------

FingerprintKeySettings == {K_32, K_A, <<>>}

\* the codec left alone: its keys in place, nothing in flight
CodecIdle ==
    /\ XDATA_KEY = K_A
    /\ env_XDATA_KEYS = <<>>
    /\ file_xdata_keys = NONE
    /\ X_API_BASE_SECRET = SECRET
    /\ AX_API_SIG_KEY = AX_KEY
    /\ ENCRYPTED_FIELD_KEY = K_A
    /\ api_key = API_KEY
    /\ wire = NO_WIRE
    /\ pc = "idle"
    /\ ret = NO_CALL
    /\ http = <<>>
    /\ earlier = NO_CALL

FpInit ==
    /\ CodecIdle
    /\ AX_FP_KEY \in FingerprintKeySettings
    /\ env_MYXL_AX_FP_KEY_STRICT \in {<<49>>, <<48>>}
    /\ files = NO_FILES
    /\ callers = [t \in Threads |-> NOT_CALLING]
    /\ NoAccounts
    /\ runner = NOT_RUNNING
    /\ DecoyUnused

FpNext ==
    \/ LoadOrCreateFingerprint
    \/ GetAxDeviceId
    \/ RemoveFingerprintFile
    \/ Remember
    \/ Finish

FpSpec == FpInit /\ [][FpNext]_vars

FingerprintCalls == {"load_or_create_fingerprint", "get_ax_device_id"}

\* C21: once the file ax.fp holds a fingerprint, a call of
\* load_or_create_fingerprint returns the fingerprint the file holds, a call
\* of get_ax_device_id returns the MD5 of that fingerprint, and the file
\* holds the same fingerprint after the call: none is generated.
C21_FingerprintReused ==
    (pc = "done" /\ ret.op \in FingerprintCalls /\ ret.args.held /= <<>>)
        => /\ stored_fingerprint(files) = ret.args.held
           /\ ret.op = "load_or_create_fingerprint" => ret.v = ret.args.held
           /\ ret.op = "get_ax_device_id"
                  => ret.v = md5_hexdigest(encode_utf8(ret.args.held).v)

\* a call has created the fingerprint, and a later call has asked for the
\* device id while the file held it
C21_Witness ==
    /\ pc = "done"
    /\ ret.op = "get_ax_device_id"
    /\ earlier.op = "load_or_create_fingerprint"
    /\ earlier.args.held = <<>>
    /\ earlier.v /= FALLBACK_FINGERPRINT
    /\ ret.args.held = earlier.v

\* ------------------------------------------------------------------------
\* The device fingerprint, several threads calling at once with no file
\* ------------------------------------------------------------------------

RaceInit ==
    /\ CodecIdle
    /\ AX_FP_KEY = K_32
    /\ env_MYXL_AX_FP_KEY_STRICT = <<49>>
    /\ files = NO_FILES
    /\ callers = [t \in Threads |-> [NOT_CALLING EXCEPT !.pc = "called"]]
    /\ NoAccounts
    /\ runner = NOT_RUNNING
    /\ DecoyUnused

RaceNext ==
    \E t \in Threads :
        \/ LookForFingerprint(t)
        \/ OpenTmp(t)
        \/ WriteTmp(t)
        \/ ReplaceTmp(t)

RaceSpec == RaceInit /\ [][RaceNext]_vars

AllReturned == \A t \in Threads : callers[t].pc = "returned"

\* C22: callers racing on a missing file converge: once all have returned,
\* each returned the fingerprint the file holds and none the error fallback;
\* and the file ax.fp, whenever it exists, holds a whole fingerprint.
C22_CallersConverge ==
    /\ AllReturned => \A t \in Threads :
                          /\ callers[t].v = stored_fingerprint(files)
                          /\ callers[t].v /= FALLBACK_FINGERPRINT
    /\ exists(files, AX_FP) => stored_fingerprint(files) /= <<>>

\* ------------------------------------------------------------------------
\* Signatures over fields that hold the delimiter
\* ------------------------------------------------------------------------

\* ";".join of the item codes of a purchase of two items (balance.py 227)
PACKAGE_CODES_JOINED == join_semi(<<PACKAGE_CODE, PACKAGE_CODE_OTHER>>)

PaymentPackageCodes == {PACKAGE_CODE, PACKAGE_CODE_OTHER, PACKAGE_CODES_JOINED}

PaymentMethods == {BALANCE, QRIS, join_semi(<<BALANCE, PACKAGE_CODE>>)}

AllotmentPackageCodes == {PACKAGE_CODE, join_semi(<<POST, PACKAGE_CODE>>)}

AllotmentPaths == {PATH_ALLOTMENT, join_semi(<<POST, PATH_ALLOTMENT>>)}

AllotmentMsisdns == {MSISDN, join_semi(<<MSISDN, POST>>)}

\* encrypt.get_x_signature_payment
GetXSignaturePayment ==
    \E package_code \in PaymentPackageCodes, token_payment \in {TOKEN_PAYMENT, TOKEN_PAYMENT_OTHER},
       payment_method \in PaymentMethods, payment_for \in {BUY_PACKAGE, REDEEM},
       path \in {PATH_SETTLEMENT, PATH_OTHER} :
        LET access_token == <<84>>
            sig_time_sec == JInt(SERVER_TS)
        IN
        /\ pc = "idle"
        /\ Finished("get_x_signature_payment",
                    [token |-> access_token, sig_time |-> sig_time_sec,
                     inputs |-> <<access_token, fmt(sig_time_sec), package_code, token_payment,
                                  payment_method, payment_for, path>>],
                    Returns(make_x_signature_payment(access_token, sig_time_sec, package_code,
                                                     token_payment, payment_method, payment_for,
                                                     path), <<>>))
        /\ UNCHANGED <<service_vars, codec_vars, earlier>>

\* encrypt.get_x_signature_bounty_allotment
GetXSignatureBountyAllotment ==
    \E package_code \in AllotmentPackageCodes, token_confirmation \in {<<84>>, <<85>>},
       destination_msisdn \in AllotmentMsisdns, path \in AllotmentPaths :
        LET sig_time_sec == JInt(SERVER_TS)
        IN
        /\ pc = "idle"
        /\ Finished("get_x_signature_bounty_allotment",
                    [token |-> token_confirmation, sig_time |-> sig_time_sec,
                     inputs |-> <<fmt(sig_time_sec), package_code, token_confirmation, path,
                                  destination_msisdn>>],
                    Returns(make_x_signature_bounty_allotment(sig_time_sec, package_code,
                                                              token_confirmation, path,
                                                              destination_msisdn), <<>>))
        /\ UNCHANGED <<service_vars, codec_vars, earlier>>

BindInit == CodecIdle /\ AtRest

BindNext ==
    \/ GetXSignaturePayment
    \/ GetXSignatureBountyAllotment
    \/ Remember
    \/ Finish

BindSpec == BindInit /\ [][BindNext]_vars

BoundCalls == {"get_x_signature_payment", "get_x_signature_bounty_allotment"}

\* C23: two calls of one signature variant whose bound fields differ, in
\* one field or in several, never sign with the same key and message; the
\* HMAC of the model is the triple of algorithm, key and message, so the
\* two signatures then differ.  Fields may hold the delimiter ";".
C23_ContextBinding ==
    (pc = "done" /\ earlier.op \in BoundCalls /\ ret.op = earlier.op
     /\ ret.args.inputs /= earlier.args.inputs)
        => ret.v /= earlier.v

\* ------------------------------------------------------------------------
\* The account list over a run
\* ------------------------------------------------------------------------

AuthInit ==
    /\ CodecIdle
    /\ AX_FP_KEY = K_32
    /\ env_MYXL_AX_FP_KEY_STRICT = <<49>>
    /\ files = NO_FILES
    /\ callers = [t \in Threads |-> NOT_CALLING]
    /\ AuthLoaded
    /\ runner = NOT_RUNNING
    /\ DecoyUnused

AuthNext ==
    \/ AddRefreshToken
    \/ RemoveRefreshToken
    \/ SetActiveUser
    \/ GetActiveUser
    \/ Tick
    \/ Finish

AuthSpec == AuthInit /\ [][AuthNext]_vars

Listed(tokens, n) == \E i \in DOMAIN tokens : tokens[i].number = n

\* C24: add_refresh_token(n, rt) returning True has put an entry for n into
\* refresh_tokens and made n the active user; returning False it has left
\* refresh_tokens and active_user as they were.
C24_AddMakesActive ==
    (pc = "done" /\ ret.op = "add_refresh_token")
        => /\ ret.v => /\ Listed(refresh_tokens, ret.args.number.v)
                       /\ active_user /= NO_USER
                       /\ active_user.number = ret.args.number.v
           /\ ~ret.v => /\ refresh_tokens = ret.args.before.refresh_tokens
                        /\ active_user = ret.args.before.active_user

\* a get_active_user call made with an active user whose tokens are older
\* than the refresh interval
RefreshDue ==
    /\ pc = "done"
    /\ ret.op = "get_active_user"
    /\ ret.args.before.active_user /= NO_USER
    /\ ret.args.now - ret.args.before.last_refresh_time > _REFRESH_INTERVAL_SECONDS

\* the entry of refresh_tokens for the active number
ActiveEntry == refresh_tokens[first_with_number(refresh_tokens, active_user.number)]

\* C25: a get_active_user call made more than the refresh interval after
\* the last refresh sends a token request; when the request succeeds the
\* active tokens are the new ones, the stored refresh token of the active
\* number is the new one and the timer is reset; when it fails active_user,
\* refresh_tokens and last_refresh_time are as before the call.
C25_AutoRefresh ==
    RefreshDue =>
        /\ http /= <<>>
        /\ ret.args.answers[4].ok
               => /\ active_user.tokens = ret.args.answers[4].tokens
                  /\ last_refresh_time = ret.args.now
                  /\ ret.args.answers[4].tokens.refresh_token /= <<>>
                         => ActiveEntry.refresh_token = ret.args.answers[4].tokens.refresh_token
        /\ ~ret.args.answers[4].ok
               => /\ active_user = ret.args.before.active_user
                  /\ refresh_tokens = ret.args.before.refresh_tokens
                  /\ last_refresh_time = ret.args.before.last_refresh_time

\* C26: the active user, when there is one, and the number in the file
\* active.number, when the file exists, are numbers of refresh_tokens.
C26_ActiveSelectionListed ==
    /\ active_user /= NO_USER => Listed(refresh_tokens, active_user.number)
    /\ active_file /= 0 => Listed(refresh_tokens, active_file)

\* C27: refresh_tokens holds at most one entry per number;
\* remove_refresh_token(n) returns True exactly when an entry for n was
\* there before the call, and no entry for n is there after it.
C27_OneEntryPerNumber ==
    /\ \A i, j \in DOMAIN refresh_tokens :
           refresh_tokens[i].number = refresh_tokens[j].number => i = j
    /\ (pc = "done" /\ ret.op = "remove_refresh_token")
           => /\ ret.v = (ret.args.number /= JNULL
                          /\ Listed(ret.args.before.refresh_tokens, ret.args.number.v))
              /\ ret.args.number /= JNULL => ~Listed(refresh_tokens, ret.args.number.v)

\* a user added over an entry of the token file has been removed again,
\* another user staying listed
C27_Witness ==
    /\ pc = "done"
    /\ ret.op = "remove_refresh_token"
    /\ ret.v
    /\ Len(ret.args.before.token_file) = 2
    /\ \E i \in DOMAIN ret.args.before.refresh_tokens :
           /\ ret.args.before.refresh_tokens[i].number = ret.args.number.v
           /\ ret.args.before.refresh_tokens[i].refresh_token /= R_0
    /\ Len(refresh_tokens) = 1

\* ------------------------------------------------------------------------
\* The redeem runner: every pass of its loops is taken in the end
\* ------------------------------------------------------------------------

RunnerInit == CodecIdle /\ AtRest

RunnerNext == ShowCustomLoopMenu \/ BeginCycle \/ RunItem \/ KeyboardInterrupt

RunnerSpec == RunnerInit /\ [][RunnerNext]_vars /\ WF_vars(BeginCycle \/ RunItem)

RunnerLimits ==
    /\ runner.items <= runner.max_cycles * runner.targets
    /\ runner.redeems <= runner.items
    /\ ~runner.capped
    /\ ~runner.failed_before

\* C29: a run that has begun ends, and all through it the runner has made
\* at most max_cycles x |targets| attempts, has begun no item with
\* total_success at max_success, and none after a failure when stop_on_fail
\* is set.
C29_RunnerTerminatesWithinLimits ==
    /\ []RunnerLimits
    /\ (runner.pc \in {"cycle", "item"}) ~> (runner.pc = "done")

\* a run of two cycles over two targets that used every attempt it had
C29_Witness ==
    /\ runner.pc = "done"
    /\ runner.max_cycles = 2
    /\ runner.targets = 2
    /\ runner.redeems = 4
    /\ runner.total_fail > 0
    /\ runner.total_success = runner.max_success

\* ------------------------------------------------------------------------
\* get_decoy in two threads while the account is switched
\* ------------------------------------------------------------------------

S_2 == <<115, 50>>

\* two accounts of two subscribers in refresh-tokens.json, the first of them
\* named by active.number
DecoyAccounts ==
    {<<Entry(811, S_1, R_0), [Entry(812, S_2, R_0) EXCEPT !.subscription_type = sub_type]>> :
        sub_type \in {PREPAID, PRIORITAS}}

DecoyInit ==
    /\ CodecIdle
    /\ AX_FP_KEY = K_32
    /\ env_MYXL_AX_FP_KEY_STRICT = <<49>>
    /\ files = NO_FILES
    /\ callers = [t \in Threads |-> NOT_CALLING]
    /\ runner = NOT_RUNNING
    /\ DecoyUnused
    /\ refresh_tokens \in DecoyAccounts
    /\ token_file = dumped(refresh_tokens)
    /\ active_file = 811
    /\ _pending_active_number = JInt(811)
    /\ active_user = NO_USER
    /\ monotonic = 0
    /\ last_refresh_time = 0

DecoyNext ==
    \/ SwitchActiveUser
    \/ \E t \in Threads :
        \/ ReadActiveUser(t)
        \/ ApplyContext(t)
        \/ ComputeKey(t)
        \/ LookInCache(t)
        \/ FetchDetail(t)
        \/ StoreCache(t)
        \/ DecoyReturned(t)

DecoySpec == DecoyInit /\ [][DecoyNext]_vars

\* a call that found its entry in the cache, with the same user active when
\* it returned as when it began
CacheHitOfUser(t) ==
    /\ decoy_callers[t].pc = "done"
    /\ decoy_callers[t].hit
    /\ decoy_callers[t].user /= NO_USER
    /\ decoy_callers[t].active = decoy_callers[t].user

\* C30: the entry get_decoy returns from the cache was fetched with the
\* tokens of the active user, whatever another thread did in between.
C30_DecoyOfActiveUser ==
    \A t \in Threads :
        CacheHitOfUser(t) =>
            decoy_callers[t].v.token_confirmation
                = token_confirmation_for(decoy_callers[t].user.tokens)

====
